---------------------------- MODULE Spec2Model ----------------------------
(***************************************************************************)
(* A model of rocketbyte/mywallet: the Gmail subscription workflow, the    *)
(* e-mail ingestion pipelines and the pattern matcher.                      *)
(*                                                                         *)
(* Five specifications share this module:                                  *)
(*   SpecMatch  the pattern matcher (EmailPattern, MongoDBPatternRepository)*)
(*   SpecPipe   the ingestion pipelines, run concurrently on one store      *)
(*   SpecSub    gmailSubscriptionWorkflow and its gmail-sync activities     *)
(*   SpecHook   GmailWebhookController.handleWebhook on one push payload    *)
(*   SpecWorker the gmail-sync activities of two tenants on one worker      *)
(* Confidences are in hundredths (0.7 is 70), times are in days.            *)
(***************************************************************************)
EXTENDS Integers, Sequences, FiniteSets, TLC

VARIABLES
    \* ---- SpecMatch: one call of findMatchingPattern
    patterns,       \* the email_patterns collection, in creation order
    email,          \* the e-mail handed to the matcher
    matchResult,    \* what findMatchingPattern returned (0: null, else a rule id)
    matchOrder,     \* the order find({isActive:true}).sort({priority:-1}) returned
    matchPc,        \* "ready" | "done" | "threw" | "returned"
    \* ---- the store and the provider, shared by SpecPipe and SpecSub
    emails,         \* the emails collection: documents in insertion order
    account,        \* the tenant's GmailAccount document
    mailboxHistoryId, \* the provider's history id: message k arrived at id k
    act,            \* the running fetchGmailChanges activity
    \* ---- SpecPipe: the ingestion pipelines
    transactions,   \* the transactions collection, in insertion order
    matchCount,     \* email_patterns: matchCount of each rule
    proc,           \* each pipeline's position and locals
    runs,           \* pipeline runs and activity invocations started so far
    extractCalls,   \* ids of the e-mails the extraction service was asked about
    \* ---- SpecSub: gmailSubscriptionWorkflow
    sub,            \* the workflow's position and locals
    watch,          \* the provider's watch registration
    now,            \* the clock, in days
    \* ---- SpecHook: one request to POST /api/gmail/webhook
    hook,           \* the handler's position, locals and the I/O it has issued
    \* ---- SpecWorker: createGmailSyncActivities, called by two tenants
    worker          \* the GmailSyncClient, the running activities, the documents

matchVars == <<patterns, email, matchResult, matchOrder, matchPc>>

syncVars == <<account, mailboxHistoryId, act>>

pipeVars == <<transactions, matchCount, proc, runs, extractCalls>>

subVars == <<sub, watch, now>>

hookVars == <<hook>>

workerVars == <<worker>>

vars == <<patterns, email, matchResult, matchOrder, matchPc, emails, account,
          mailboxHistoryId, act, transactions, matchCount, proc, runs,
          extractCalls, sub, watch, now, hook, worker>>

-----------------------------------------------------------------------------
(* Strings are sequences of characters; A, B and P are the upper-case ones. *)

toLowerChar(c) == CASE c = "A" -> "a" [] c = "B" -> "b" [] c = "P" -> "p" [] OTHER -> c

toLowerCase(s) == [i \in 1..Len(s) |-> toLowerChar(s[i])]

\* String.prototype.includes
includes(s, t) ==
    \E i \in 0..(Len(s) - Len(t)) : SubSeq(s, i + 1, i + Len(t)) = t

\* arr.some(a => s.toLowerCase().includes(a.toLowerCase()))
someIncluded(arr, s) ==
    \E i \in 1..Len(arr) : includes(toLowerCase(s), toLowerCase(arr[i]))

\* arr.some(a => s.toLowerCase() === a.toLowerCase())
someEqual(arr, s) ==
    \E i \in 1..Len(arr) : toLowerCase(s) = toLowerCase(arr[i])

\* arr.filter(a => s.toLowerCase().includes(a.toLowerCase())).length
countIncluded(arr, s) ==
    Cardinality({i \in 1..Len(arr) : includes(toLowerCase(s), toLowerCase(arr[i]))})

-----------------------------------------------------------------------------
(* EmailPattern (domain entity)                                            *)

\* EmailPattern.matches
matches(p, emailFrom, emailSubject, emailBody) ==
    IF ~p.isActive THEN FALSE
    ELSE
      LET fromMatches == someIncluded(p.fromAddresses, emailFrom)
          subjectMatches ==
            \/ Len(p.subjectPatterns) = 0
            \/ someIncluded(p.subjectPatterns, emailSubject)
          bodyMatches ==
            \/ Len(p.bodyKeywords) = 0
            \/ someIncluded(p.bodyKeywords, emailBody)
      IN  IF ~fromMatches THEN FALSE ELSE subjectMatches /\ bodyMatches

\* A score in which an exact sender earns no more than a partial one.
scoreWithoutExactBonus(p, emailFrom, emailSubject, emailBody) ==
    LET fromScore == IF someIncluded(p.fromAddresses, emailFrom) THEN 5 ELSE 0
        subjectMatches == countIncluded(p.subjectPatterns, emailSubject)
        bodyMatches == countIncluded(p.bodyKeywords, emailBody)
    IN  p.priority + fromScore + subjectMatches * 2 + bodyMatches

\* EmailPattern.calculateMatchScore
calculateMatchScore(p, emailFrom, emailSubject, emailBody) ==
    LET fromScore ==
          IF someEqual(p.fromAddresses, emailFrom) THEN 10
          ELSE IF someIncluded(p.fromAddresses, emailFrom) THEN 5
          ELSE 0
        subjectMatches == countIncluded(p.subjectPatterns, emailSubject)
        bodyMatches == countIncluded(p.bodyKeywords, emailBody)
    IN  p.priority + fromScore + subjectMatches * 2 + bodyMatches

-----------------------------------------------------------------------------
(* Email (domain entity)                                                   *)

\* String.prototype.trim
trim(s) ==
    LET inked == { i \in 1..Len(s) : s[i] # " " }
    IN  IF inked = {} THEN <<>>
        ELSE SubSeq(s, CHOOSE i \in inked : \A j \in inked : i <= j,
                       CHOOSE i \in inked : \A j \in inked : j <= i)

\* Email.validate, called by the constructor: TRUE when it does not throw.
validate(id, from) ==
    /\ ~(id = <<>> \/ trim(id) = <<>>)
    /\ ~(from = <<>> \/ trim(from) = <<>>)

-----------------------------------------------------------------------------
(* MongoDBPatternRepository                                                 *)

\* findMatchingPattern's "return null"
NoPattern == 0

\* The rules a collection is drawn from: [priority, fromAddresses,
\* subjectPatterns, bodyKeywords, isActive]; the id is the creation index.
MaxRules == 2

RuleTemplates ==
    { [priority |-> 5,  fromAddresses |-> << <<"a","b">> >>, subjectPatterns |-> <<>>,
       bodyKeywords |-> <<>>, isActive |-> TRUE],
      [priority |-> 10, fromAddresses |-> << <<"a">> >>, subjectPatterns |-> <<>>,
       bodyKeywords |-> <<>>, isActive |-> TRUE],
      [priority |-> 10, fromAddresses |-> << <<"z","z">>, <<"A","B">> >>, subjectPatterns |-> <<>>,
       bodyKeywords |-> <<>>, isActive |-> TRUE],
      [priority |-> 5,  fromAddresses |-> << <<"a">> >>, subjectPatterns |-> << <<"p">>, <<"q">> >>,
       bodyKeywords |-> <<>>, isActive |-> TRUE],
      [priority |-> 10, fromAddresses |-> << <<"z","z">> >>, subjectPatterns |-> <<>>,
       bodyKeywords |-> <<>>, isActive |-> TRUE],
      [priority |-> 10, fromAddresses |-> << <<"a","b">> >>, subjectPatterns |-> <<>>,
       bodyKeywords |-> <<>>, isActive |-> FALSE],
      [priority |-> 5,  fromAddresses |-> << <<"a">> >>, subjectPatterns |-> <<>>,
       bodyKeywords |-> << <<"k">> >>, isActive |-> TRUE],
      [priority |-> 0,  fromAddresses |-> << <<"b">> >>, subjectPatterns |-> << <<"p">> >>,
       bodyKeywords |-> << <<"k">>, <<"z">> >>, isActive |-> TRUE],
      [priority |-> -10, fromAddresses |-> << <<"a">> >>, subjectPatterns |-> <<>>,
       bodyKeywords |-> <<>>, isActive |-> TRUE],
      [priority |-> -10, fromAddresses |-> << <<"a">> >>, subjectPatterns |-> << <<"p">> >>,
       bodyKeywords |-> <<>>, isActive |-> TRUE] }

Senders  == { <<"a","b">>, <<"x","A","b">>, <<"c">> }
Subjects == { <<"P","q">>, <<"z">> }
Bodies   == { <<"k">>, <<"z","k","z">>, <<"y">> }

Emails == [from : Senders, subject : Subjects, body : Bodies]

\* A collection: templates in creation order, each with its id.
Collections ==
    UNION { { [i \in 1..n |-> [id |-> i] @@ t[i]] : t \in [1..n -> RuleTemplates] }
            : n \in 1..MaxRules }

\* EmailPatternModel.find({ isActive: true }).sort({ priority: -1 }): every
\* active rule once, priorities descending; MongoDB leaves the order of rules
\* of equal priority open, so every such order is a possible answer.
findAllActive(coll) ==
    LET active == { i \in 1..Len(coll) : coll[i].isActive }
        n == Cardinality(active)
    IN  { [k \in 1..n |-> coll[o[k]]] :
            o \in { f \in [1..n -> active] :
                      /\ \A j, k \in 1..n : j # k => f[j] # f[k]
                      /\ \A j, k \in 1..n :
                            j < k => coll[f[j]].priority >= coll[f[k]].priority } }

\* One step of a stable sort by descending score: x goes behind every element
\* whose score is at least its own.
RECURSIVE insertByScore(_, _)
insertByScore(sorted, x) ==
    IF sorted = <<>> THEN <<x>>
    ELSE IF Head(sorted).score >= x.score
         THEN <<Head(sorted)>> \o insertByScore(Tail(sorted), x)
         ELSE <<x>> \o sorted

RECURSIVE sortFrom(_, _)
sortFrom(sorted, rest) ==
    IF rest = <<>> THEN sorted
    ELSE sortFrom(insertByScore(sorted, Head(rest)), Tail(rest))

\* A sort that puts an element before those of equal score (ties reversed).
RECURSIVE insertBeforeTies(_, _)
insertBeforeTies(sorted, x) ==
    IF sorted = <<>> THEN <<x>>
    ELSE IF Head(sorted).score > x.score
         THEN <<Head(sorted)>> \o insertBeforeTies(Tail(sorted), x)
         ELSE <<x>> \o sorted

RECURSIVE sortFromReversed(_, _)
sortFromReversed(sorted, rest) ==
    IF rest = <<>> THEN sorted
    ELSE sortFromReversed(insertBeforeTies(sorted, Head(rest)), Tail(rest))

sortByScoreTiesReversed(ms) == sortFromReversed(<<>>, ms)

\* matches.sort((a, b) => b.score - a.score): Array.prototype.sort is stable.
sortByScore(ms) == sortFrom(<<>>, ms)

\* findMatchingPattern, given what findAllActive returned.
findMatchingPattern(found, e) ==
    IF Len(found) = 0 THEN NoPattern
    ELSE
      LET scored == [i \in 1..Len(found) |->
                       [pattern |-> found[i],
                        score |-> calculateMatchScore(found[i], e.from, e.subject, e.body)]]
          positive == SelectSeq(scored, LAMBDA m : m.score > 0)
          ms == SelectSeq(positive,
                          LAMBDA m : matches(m.pattern, e.from, e.subject, e.body))
      IN  IF Len(ms) = 0 THEN NoPattern
          ELSE sortByScore(ms)[1].pattern.id

-----------------------------------------------------------------------------
(* The store: the emails and transactions collections                      *)

\* findOne's null, and the _id of no document
NoDoc == 0

\* input.userId of a caller that passes none
NoUser == "undefined"

\* What a caller of saveTransaction passes as input.userId: the workflows of
\* this repository leave it out, a caller that fills SaveTransactionInput
\* passes the tenant.
Users == {NoUser, "u1"}

\* TransactionSchema userId: { required: true }: a document without a userId
\* does not pass validation.
userIdRequired(u) == u # NoUser

\* processingError of a document that has none
NoError == "none"

\* new Email({ ..., isProcessed: false })
newEmail(m) ==
    [emailId |-> m, isProcessed |-> FALSE, processingError |-> NoError,
     transactionId |-> NoDoc]

emailDocsWith(db, m) == { i \in 1..Len(db) : db[i].emailId = m }

\* Email.findOne({ emailId }): the _id (position) of the document, or NoDoc
findEmail(db, m) ==
    IF emailDocsWith(db, m) = {} THEN NoDoc
    ELSE CHOOSE i \in emailDocsWith(db, m) : \A j \in emailDocsWith(db, m) : i <= j

\* A collection without the unique index: every insert is admitted.
emailIdNotIndexed(db, m) == TRUE

\* EmailSchema emailId: { unique: true }: an insert of a second document
\* with the same emailId is refused (E11000).
emailIdIsUnique(db, m) == emailDocsWith(db, m) = {}

txnDocsWith(db, u, m) == { i \in 1..Len(db) : db[i].userId = u /\ db[i].emailId = m }

\* Transaction.findOne({ userId, emailId })
findTransaction(db, u, m) ==
    IF txnDocsWith(db, u, m) = {} THEN NoDoc
    ELSE CHOOSE i \in txnDocsWith(db, u, m) : \A j \in txnDocsWith(db, u, m) : i <= j

\* TransactionSchema.index({ userId: 1, emailId: 1 }, { unique: true })
txnKeyIsUnique(db, u, m) == txnDocsWith(db, u, m) = {}

\* Email.findOneAndUpdate({ emailId }, { isProcessed, transactionId,
\* processingError, ... }): the first document of that emailId is updated, a
\* key whose value is undefined is left as it is, and nothing happens when
\* there is no such document.
updateEmailProcessing(db, m, isProcessed, transactionId, processingError) ==
    [i \in 1..Len(db) |->
       IF i = findEmail(db, m)
       THEN [db[i] EXCEPT
               !.isProcessed = isProcessed,
               !.transactionId = IF transactionId = NoDoc THEN @ ELSE transactionId,
               !.processingError = IF processingError = NoError THEN @ ELSE processingError]
       ELSE db[i]]

\* An upsert that always inserts.
insertEmail(db, m) == Append(db, newEmail(m))

\* Email.findOneAndUpdate({ emailId }, { ..., isProcessed: false },
\* { upsert: true }) of fetchGmailChanges
upsertEmail(db, m) ==
    IF findEmail(db, m) = NoDoc THEN Append(db, newEmail(m))
    ELSE [i \in 1..Len(db) |->
            IF i = findEmail(db, m) THEN [db[i] EXCEPT !.isProcessed = FALSE]
            ELSE db[i]]

-----------------------------------------------------------------------------
(* Extraction and the confidence gate                                      *)

\* The confidence gate of the workflows, in hundredths (0.7)
CONFIDENCE_THRESHOLD == 70

\* A reply of the extraction service that carries no confidence
NoConfidence == -1

\* What the extraction service may report as its confidence.
ReportedConfidences == {NoConfidence, 0, 69, 70}

\* The fields validateTransactionData requires of a reply.
requiredFields ==
    {"transactionDate", "merchant", "amount", "currency", "category",
     "transactionType", "accountNumber"}

\* A reply with every required field, a numeric amount and a known type.
WellFormed(c) ==
    [fields |-> requiredFields, amount |-> "number", transactionType |-> "debit",
     confidence |-> c]

\* Replies validateTransactionData has to refuse: a required field is missing,
\* the amount is a string or NaN, the transaction type is not debit or credit.
\* (Written without their confidence.)
MalformedReplies ==
    { [WellFormed(NoConfidence) EXCEPT !.fields = requiredFields \ {f}] :
        f \in {"merchant", "transactionType"} }
    \cup { [WellFormed(NoConfidence) EXCEPT !.amount = a] : a \in {"string", "NaN"} }
    \cup { [WellFormed(NoConfidence) EXCEPT !.transactionType = "transfer"] }

\* What the extraction service may reply (the parsed JSON of the completion).
Replies ==
    { [r EXCEPT !.confidence = c] :
        r \in {WellFormed(NoConfidence)} \cup MalformedReplies,
        c \in ReportedConfidences }

\* The transaction fields of a reply, without its confidence.
transactionFields(data) == [data EXCEPT !.confidence = NoConfidence]

\* No reply has been received.
NoReply == [fields |-> {}, amount |-> "none", transactionType |-> "none",
            confidence |-> NoConfidence]

\* A validator that lets every reply through.
validateNothing(data) == TRUE

\* OpenAIClient.validateTransactionData
validateTransactionData(data) ==
    /\ \A field \in requiredFields : field \in data.fields
    /\ data.amount = "number"
    /\ data.transactionType \in {"debit", "credit"}

\* extractedData.confidence || 0.8 (extractTransactionFromEmail)
orDefault(c) == IF c = NoConfidence \/ c = 0 THEN 80 ELSE c

\* data.confidence ?? 0.8 (OpenAIGateway.extractStructuredData)
nullishDefault(c) == IF c = NoConfidence THEN 80 ELSE c

\* A gate that lets every extraction through.
neverLowConfidence(c) == FALSE

\* A gate that also rejects a confidence equal to the threshold.
lowConfidenceAtThreshold(c) == c <= CONFIDENCE_THRESHOLD

\* extractedData.confidence < CONFIDENCE_THRESHOLD (both workflows)
lowConfidence(c) == c < CONFIDENCE_THRESHOLD

\* Transaction.isHighConfidence
isHighConfidence(c) == c >= 70

-----------------------------------------------------------------------------
(* matchEmailPattern (mongodb activities): the first active rule, in the   *)
(* order of find({isActive:true}).sort({priority:-1}), whose from list,    *)
(* subject patterns and body keywords all match.                           *)

\* new RegExp(regex, 'i').test(subject), for patterns without metacharacters
regExpTest(regex, s) == includes(toLowerCase(s), toLowerCase(regex))

someRegExp(arr, s) == \E i \in 1..Len(arr) : regExpTest(arr[i], s)

\* A matcher that does not look at the sender.
matchIgnoringFrom(found, e) ==
    LET hits == { i \in 1..Len(found) : someRegExp(found[i].subjectPatterns, e.subject) }
    IN  IF hits = {} THEN NoPattern
        ELSE found[CHOOSE i \in hits : \A j \in hits : i <= j].id

matchEmailPattern(found, e) ==
    LET hits == { i \in 1..Len(found) :
                    /\ someIncluded(found[i].fromAddresses, e.from)
                    /\ someRegExp(found[i].subjectPatterns, e.subject)
                    /\ \/ Len(found[i].bodyKeywords) = 0
                       \/ someIncluded(found[i].bodyKeywords, e.body) }
    IN  IF hits = {} THEN NoPattern
        ELSE found[CHOOSE i \in hits : \A j \in hits : i <= j].id

-----------------------------------------------------------------------------
(* The ingestion pipelines: emailProcessingWorkflow ("wf"),                 *)
(* scheduledEmailProcessingWorkflow ("sched") and ProcessEmailUseCase       *)
(* ("uc"), each working through a batch of e-mails, one await at a time.    *)

Procs == {"wf", "sched", "uc"}

Workflows == {"wf", "sched"}

\* The mailbox: the e-mail of id 1 is from a sender of rule 1, the e-mail of
\* id 2 is from a sender no rule lists.
Mailbox ==
    << [from |-> <<"a","b">>, subject |-> <<"P","q">>, body |-> <<"k">>],
       [from |-> <<"c">>,     subject |-> <<"P","q">>, body |-> <<"k">>] >>

\* What gmail search may return to a run: the latest e-mail of the mailbox,
\* or both.
Batches == { <<2>>, <<1, 2>> }

\* The email_patterns collection the pipelines run against.
PipePatterns ==
    << [id |-> 1, priority |-> 5, fromAddresses |-> << <<"a","b">> >>,
        subjectPatterns |-> << <<"p">> >>, bodyKeywords |-> <<>>, isActive |-> TRUE],
       [id |-> 2, priority |-> 10, fromAddresses |-> << <<"z","z">> >>,
        subjectPatterns |-> << <<"q">> >>, bodyKeywords |-> <<>>, isActive |-> TRUE] >>

\* Runs of the pipelines and invocations of fetchGmailChanges, in total.
MaxRuns == 2

NoReport == [emailId |-> 0, outcome |-> "none"]

IdleProc ==
    [pc |-> "idle", userId |-> NoUser, batch |-> <<>>, idx |-> 0,
     pattern |-> NoPattern, conf |-> 0, reply |-> NoReply, txn |-> NoDoc, read |-> 0,
     last |-> NoReport]

\* The e-mail a pipeline is working on.
cur(p) == proc[p].batch[proc[p].idx]

\* What the run reports about its current e-mail.
report(r, out) == [r EXCEPT !.last = [emailId |-> r.batch[r.idx], outcome |-> out]]

\* The for loop goes to its next e-mail, at step first, or the run returns.
nextEmail(r, first) ==
    LET r1 == [r EXCEPT !.pattern = NoPattern, !.conf = 0, !.reply = NoReply,
                        !.txn = NoDoc, !.read = 0]
    IN  IF r.idx < Len(r.batch)
        THEN [r1 EXCEPT !.idx = r.idx + 1, !.pc = first]
        ELSE [r1 EXCEPT !.pc = "idle", !.userId = NoUser, !.idx = 0, !.batch = <<>>]

\* The first step a pipeline takes on an e-mail.
firstPc(p) ==
    CASE p = "wf" -> "saveEmail" [] p = "sched" -> "match" [] OTHER -> "exists"

\* gmailActivities.fetchEmails / emailGateway.searchEmails: a run begins.
FetchEmails(p) ==
    /\ proc[p].pc = "idle"
    /\ runs < MaxRuns
    /\ \E b \in Batches, u \in IF p = "uc" THEN {NoUser} ELSE Users :
         proc' = [proc EXCEPT ![p] =
                    [IdleProc EXCEPT !.pc = IF p = "uc" THEN "exists" ELSE "saveEmail",
                                     !.userId = u, !.batch = b, !.idx = 1]]
    /\ runs' = runs + 1
    /\ UNCHANGED <<matchVars, hookVars, workerVars,
                   emails, syncVars, transactions, matchCount,
                   extractCalls, subVars>>

\* saveEmail has returned: emailProcessingWorkflow goes on to match, the
\* scheduled workflow stores the next e-mail of its batch (step 2).
afterSaveEmail(p, r, out) ==
    IF p = "wf" THEN [report(r, out) EXCEPT !.pc = IF out = "stored" THEN "match" ELSE "catch"]
    ELSE IF r.idx < Len(r.batch)
         THEN [report(r, out) EXCEPT !.idx = r.idx + 1, !.pc = "saveEmail"]
         ELSE [report(r, out) EXCEPT !.pc = "getUnprocessed"]

\* saveEmail: Email.findOne({ emailId })
SaveEmailFind(p) ==
    /\ p \in Workflows
    /\ proc[p].pc = "saveEmail"
    /\ proc' = [proc EXCEPT ![p] =
                  IF findEmail(emails, cur(p)) # NoDoc
                  THEN afterSaveEmail(p, proc[p], "stored")
                  ELSE [proc[p] EXCEPT !.pc = "saveEmailInsert"]]
    /\ UNCHANGED <<matchVars, hookVars, workerVars,
                   emails, syncVars, transactions, matchCount, runs,
                   extractCalls, subVars>>

\* saveEmail: email.save(); a refused insert fails the activity, which
\* Temporal runs again from its first line.
SaveEmailInsert(p) ==
    /\ p \in Workflows
    /\ proc[p].pc = "saveEmailInsert"
    /\ IF emailIdIsUnique(emails, cur(p))
       THEN /\ emails' = Append(emails, newEmail(cur(p)))
            /\ proc' = [proc EXCEPT ![p] = afterSaveEmail(p, proc[p], "stored")]
       ELSE /\ emails' = emails
            /\ proc' = [proc EXCEPT ![p].pc = "saveEmail"]
    /\ UNCHANGED <<matchVars, hookVars, workerVars,
                   syncVars, transactions, matchCount, runs,
                   extractCalls, subVars>>

\* saveEmail fails for good (the store is unreachable).
SaveEmailThrows(p) ==
    /\ p \in Workflows
    /\ proc[p].pc = "saveEmail"
    /\ proc' = [proc EXCEPT ![p] = afterSaveEmail(p, proc[p], "store failed")]
    /\ UNCHANGED <<matchVars, hookVars, workerVars,
                   emails, syncVars, transactions, matchCount, runs,
                   extractCalls, subVars>>

\* getUnprocessedEmails, and the filter of step 4 to the current batch
GetUnprocessedEmails(p) ==
    /\ p = "sched"
    /\ proc[p].pc = "getUnprocessed"
    /\ LET work == SelectSeq(proc[p].batch,
                             LAMBDA m : \E i \in emailDocsWith(emails, m) :
                                           ~emails[i].isProcessed)
       IN  proc' = [proc EXCEPT ![p] =
                      IF work = <<>>
                      THEN [proc[p] EXCEPT !.pc = "idle", !.userId = NoUser, !.idx = 0,
                                           !.batch = <<>>]
                      ELSE [proc[p] EXCEPT !.pc = "match", !.idx = 1, !.batch = work]]
    /\ UNCHANGED <<matchVars, hookVars, workerVars,
                   emails, syncVars, transactions, matchCount, runs,
                   extractCalls, subVars>>

\* matchEmailPattern, and the workflow's "if (!pattern)"
MatchEmailPattern(p) ==
    /\ p \in Workflows
    /\ proc[p].pc = "match"
    /\ \E found \in findAllActive(patterns) :
         LET pat == matchEmailPattern(found, Mailbox[cur(p)])
         IN  proc' = [proc EXCEPT ![p] =
                        IF pat # NoPattern
                        THEN [proc[p] EXCEPT !.pattern = pat, !.pc = "extract"]
                        ELSE IF p = "wf"
                             THEN nextEmail(report(proc[p], "no pattern"), firstPc(p))
                             ELSE [proc[p] EXCEPT !.pc = "noPattern"]]
    /\ UNCHANGED <<matchVars, hookVars, workerVars,
                   emails, syncVars, transactions, matchCount, runs,
                   extractCalls, subVars>>

\* extractTransactionFromEmail, and the workflow's confidence gate
ExtractTransactionFromEmail(p) ==
    /\ p \in Workflows
    /\ proc[p].pc = "extract"
    /\ extractCalls' = extractCalls \cup {cur(p)}
    /\ \E extractedData \in Replies :
         LET c == orDefault(extractedData.confidence)
         IN  IF ~validateTransactionData(extractedData)
             THEN proc' = [proc EXCEPT ![p] =
                             [proc[p] EXCEPT !.reply = transactionFields(extractedData),
                                             !.pc = "catch"]]
             ELSE proc' = [proc EXCEPT ![p] =
                        IF lowConfidence(c)
                        THEN [report(proc[p], "low confidence") EXCEPT
                                !.conf = c, !.reply = transactionFields(extractedData),
                                !.pc = IF p = "wf" THEN "statsFail" ELSE "lowConfidence"]
                        ELSE [proc[p] EXCEPT !.conf = c,
                                             !.reply = transactionFields(extractedData),
                                             !.pc = "saveTransaction"]]
    /\ UNCHANGED <<matchVars, hookVars, workerVars,
                   emails, syncVars, transactions, matchCount, runs,
                   subVars>>

\* extractTransactionFromEmail throws because the service fails.
ExtractTransactionFromEmailThrows(p) ==
    /\ p \in Workflows
    /\ proc[p].pc = "extract"
    /\ extractCalls' = extractCalls \cup {cur(p)}
    /\ proc' = [proc EXCEPT ![p].pc = "catch"]
    /\ UNCHANGED <<matchVars, hookVars, workerVars,
                   emails, syncVars, transactions, matchCount, runs,
                   subVars>>

\* saveTransaction: Transaction.findOne({ userId, emailId })
SaveTransactionFind(p) ==
    /\ p \in Workflows
    /\ proc[p].pc = "saveTransaction"
    /\ LET t == findTransaction(transactions, proc[p].userId, cur(p))
       IN  proc' = [proc EXCEPT ![p] =
                      IF t # NoDoc THEN [proc[p] EXCEPT !.txn = t, !.pc = "statsOk"]
                      ELSE [proc[p] EXCEPT !.pc = "saveTransactionInsert"]]
    /\ UNCHANGED <<matchVars, hookVars, workerVars,
                   emails, syncVars, transactions, matchCount, runs,
                   extractCalls, subVars>>

\* saveTransaction: transaction.save(). A document without a userId fails
\* validation on every attempt, and the activity fails for good; an insert the
\* unique index refuses fails the attempt, and Temporal runs the activity
\* again from its first line.
SaveTransactionInsert(p) ==
    /\ p \in Workflows
    /\ proc[p].pc = "saveTransactionInsert"
    /\ IF ~userIdRequired(proc[p].userId)
       THEN /\ transactions' = transactions
            /\ proc' = [proc EXCEPT ![p].pc = "catch"]
       ELSE IF txnKeyIsUnique(transactions, proc[p].userId, cur(p))
       THEN /\ transactions' = Append(transactions,
                                      [userId |-> proc[p].userId, emailId |-> cur(p),
                                       confidence |-> proc[p].conf])
            /\ proc' = [proc EXCEPT ![p] =
                          [proc[p] EXCEPT !.txn = Len(transactions) + 1, !.pc = "statsOk"]]
       ELSE /\ transactions' = transactions
            /\ proc' = [proc EXCEPT ![p].pc = "saveTransaction"]
    /\ UNCHANGED <<matchVars, hookVars, workerVars,
                   emails, syncVars, matchCount, runs, extractCalls,
                   subVars>>

\* saveTransaction fails for good (the store is unreachable).
SaveTransactionThrows(p) ==
    /\ p \in Workflows
    /\ proc[p].pc = "saveTransaction"
    /\ proc' = [proc EXCEPT ![p].pc = "catch"]
    /\ UNCHANGED <<matchVars, hookVars, workerVars,
                   emails, syncVars, transactions, matchCount, runs,
                   extractCalls, subVars>>

\* updateEmailPatternStats: EmailPattern.findById
UpdateEmailPatternStatsRead(p) ==
    /\ p \in Workflows
    /\ proc[p].pc \in {"statsOk", "statsFail"}
    /\ proc' = [proc EXCEPT ![p] =
                  [proc[p] EXCEPT !.read = matchCount[proc[p].pattern],
                                  !.pc = IF proc[p].pc = "statsOk" THEN "statsOkSave"
                                         ELSE "statsFailSave"]]
    /\ UNCHANGED <<matchVars, hookVars, workerVars,
                   emails, syncVars, transactions, matchCount, runs,
                   extractCalls, subVars>>

\* updateEmailPatternStats: pattern.matchCount += 1; pattern.save()
UpdateEmailPatternStatsSave(p) ==
    /\ p \in Workflows
    /\ proc[p].pc \in {"statsOkSave", "statsFailSave"}
    /\ matchCount' = [matchCount EXCEPT ![proc[p].pattern] = proc[p].read + 1]
    /\ proc' = [proc EXCEPT ![p] =
                  IF proc[p].pc = "statsOkSave" THEN [proc[p] EXCEPT !.pc = "label"]
                  ELSE nextEmail(proc[p], firstPc(p))]
    /\ UNCHANGED <<matchVars, hookVars, workerVars,
                   emails, syncVars, transactions, runs, extractCalls,
                   subVars>>

\* gmailActivities.markEmailAsProcessed
MarkEmailAsProcessed(p) ==
    /\ p \in Workflows
    /\ proc[p].pc = "label"
    /\ proc' = [proc EXCEPT ![p].pc = "updateProcessed"]
    /\ UNCHANGED <<matchVars, hookVars, workerVars,
                   emails, syncVars, transactions, matchCount, runs,
                   extractCalls, subVars>>

MarkEmailAsProcessedThrows(p) ==
    /\ p \in Workflows
    /\ proc[p].pc = "label"
    /\ proc' = [proc EXCEPT ![p].pc = "catch"]
    /\ UNCHANGED <<matchVars, hookVars, workerVars,
                   emails, syncVars, transactions, matchCount, runs,
                   extractCalls, subVars>>

\* The workflows' calls of updateEmailProcessing: on success, in the catch
\* block, and (scheduled workflow) on no pattern and on low confidence.
UpdateEmailProcessing(p) ==
    /\ p \in Workflows
    /\ proc[p].pc \in {"updateProcessed", "catch", "noPattern", "lowConfidence"}
    /\ LET r == proc[p]
           m == cur(p)
       IN  CASE r.pc = "updateProcessed" ->
                  /\ emails' = updateEmailProcessing(emails, m, TRUE, r.txn, NoError)
                  /\ proc' = [proc EXCEPT ![p] =
                                nextEmail(report(r, "processed"), firstPc(p))]
             [] r.pc = "catch" ->
                  /\ emails' = updateEmailProcessing(emails, m, FALSE, NoDoc, "error")
                  /\ proc' = [proc EXCEPT ![p] =
                                nextEmail(report(r, "error"), firstPc(p))]
             [] r.pc = "noPattern" ->
                  /\ emails' = updateEmailProcessing(emails, m, FALSE, NoDoc, "no pattern")
                  /\ proc' = [proc EXCEPT ![p] =
                                nextEmail(report(r, "no pattern"), firstPc(p))]
             [] OTHER ->
                  /\ emails' = updateEmailProcessing(emails, m, FALSE, NoDoc,
                                                     "low confidence")
                  /\ proc' = [proc EXCEPT ![p].pc = "statsFail"]
    /\ UNCHANGED <<matchVars, hookVars, workerVars,
                   syncVars, transactions, matchCount, runs,
                   extractCalls, subVars>>

-----------------------------------------------------------------------------
(* ProcessEmailUseCase.execute, through the MongoDB repositories            *)

\* emailRepo.exists
EmailRepoExists(p) ==
    /\ p = "uc"
    /\ proc[p].pc = "exists"
    /\ proc' = [proc EXCEPT ![p] =
                  IF findEmail(emails, cur(p)) # NoDoc
                  THEN nextEmail(report(proc[p], "skipped"), firstPc(p))
                  ELSE [proc[p] EXCEPT !.pc = "emailSave"]]
    /\ UNCHANGED <<matchVars, hookVars, workerVars,
                   emails, syncVars, transactions, matchCount, runs,
                   extractCalls, subVars>>

\* emailRepo.save: EmailModel.create
EmailRepoSave(p) ==
    /\ p = "uc"
    /\ proc[p].pc = "emailSave"
    /\ emailIdIsUnique(emails, cur(p))
    /\ emails' = Append(emails, newEmail(cur(p)))
    /\ proc' = [proc EXCEPT ![p] = [report(proc[p], "stored") EXCEPT !.pc = "findByEmailId"]]
    /\ UNCHANGED <<matchVars, hookVars, workerVars,
                   syncVars, transactions, matchCount, runs,
                   extractCalls, subVars>>

\* emailRepo.save throws (a refused duplicate, or the store is unreachable).
EmailRepoSaveThrows(p) ==
    /\ p = "uc"
    /\ proc[p].pc = "emailSave"
    /\ proc' = [proc EXCEPT ![p].pc = "ucCatch"]
    /\ UNCHANGED <<matchVars, hookVars, workerVars,
                   emails, syncVars, transactions, matchCount, runs,
                   extractCalls, subVars>>

\* transactionRepo.findByEmailId: TransactionModel.findOne({ emailId })
TransactionRepoFindByEmailId(p) ==
    /\ p = "uc"
    /\ proc[p].pc = "findByEmailId"
    /\ proc' = [proc EXCEPT ![p] =
                  IF \E i \in 1..Len(transactions) : transactions[i].emailId = cur(p)
                  THEN nextEmail(report(proc[p], "skipped"), firstPc(p))
                  ELSE [proc[p] EXCEPT !.pc = "findPattern"]]
    /\ UNCHANGED <<matchVars, hookVars, workerVars,
                   emails, syncVars, transactions, matchCount, runs,
                   extractCalls, subVars>>

\* patternRepo.findMatchingPattern, and "if (!pattern)"
PatternRepoFindMatchingPattern(p) ==
    /\ p = "uc"
    /\ proc[p].pc = "findPattern"
    /\ \E found \in findAllActive(patterns) :
         LET pat == findMatchingPattern(found, Mailbox[cur(p)])
         IN  proc' = [proc EXCEPT ![p] =
                        IF pat # NoPattern
                        THEN [proc[p] EXCEPT !.pattern = pat, !.pc = "extractTransaction"]
                        ELSE nextEmail(report(proc[p], "skipped"), firstPc(p))]
    /\ UNCHANGED <<matchVars, hookVars, workerVars,
                   emails, syncVars, transactions, matchCount, runs,
                   extractCalls, subVars>>

\* transactionExtractor.extractTransaction, and "if (!isHighConfidence())"
ExtractTransaction(p) ==
    /\ p = "uc"
    /\ proc[p].pc = "extractTransaction"
    /\ extractCalls' = extractCalls \cup {cur(p)}
    /\ \E reported \in ReportedConfidences :
         LET c == nullishDefault(reported)
         IN  proc' = [proc EXCEPT ![p] =
                        IF isHighConfidence(c)
                        THEN [proc[p] EXCEPT !.conf = c, !.pc = "transactionSave"]
                        ELSE [report(proc[p], "low confidence") EXCEPT
                                !.conf = c, !.pc = "ucLowConfidence"]]
    /\ UNCHANGED <<matchVars, hookVars, workerVars,
                   emails, syncVars, transactions, matchCount, runs,
                   subVars>>

\* extractTransaction throws (the service fails, or the Transaction
\* constructor refuses the reply).
ExtractTransactionThrows(p) ==
    /\ p = "uc"
    /\ proc[p].pc = "extractTransaction"
    /\ extractCalls' = extractCalls \cup {cur(p)}
    /\ proc' = [proc EXCEPT ![p].pc = "ucCatch"]
    /\ UNCHANGED <<matchVars, hookVars, workerVars,
                   emails, syncVars, transactions, matchCount, runs,
                   subVars>>

\* transactionRepo.save: TransactionModel.create({ emailId, emailSubject: '',
\* emailFrom: '', rawEmailText: '', workflowId: '', ... }), without a userId.
\* The schema requires userId and requires these strings to be non-empty, so
\* create rejects on every call and the catch block takes over; the steps
\* behind it (updateProcessingStatus of a success, updatePatternStats) are
\* never reached.
TransactionRepoSave(p) ==
    /\ p = "uc"
    /\ proc[p].pc = "transactionSave"
    /\ ~userIdRequired(proc[p].userId)
    /\ proc' = [proc EXCEPT ![p].pc = "ucCatch"]
    /\ UNCHANGED <<matchVars, hookVars, workerVars,
                   emails, syncVars, transactions, matchCount, runs,
                   extractCalls, subVars>>

\* emailRepo.updateProcessingStatus: on low confidence and in the catch block
UpdateProcessingStatus(p) ==
    /\ p = "uc"
    /\ proc[p].pc \in {"ucLowConfidence", "ucCatch"}
    /\ LET r == proc[p]
           m == cur(p)
       IN  IF r.pc = "ucLowConfidence"
           THEN /\ emails' = updateEmailProcessing(emails, m, FALSE, NoDoc,
                                                   "low confidence")
                /\ proc' = [proc EXCEPT ![p] = nextEmail(r, firstPc(p))]
           ELSE /\ emails' = updateEmailProcessing(emails, m, FALSE, NoDoc, "error")
                /\ proc' = [proc EXCEPT ![p] =
                              nextEmail(report(r, "error"), firstPc(p))]
    /\ UNCHANGED <<matchVars, hookVars, workerVars,
                   syncVars, transactions, matchCount, runs,
                   extractCalls, subVars>>

-----------------------------------------------------------------------------
(* fetchGmailChanges (gmail-sync activities) and GmailSyncClient.fetchHistory *)

\* GmailAccount.lastError: null
NoAccountError == "null"

\* GmailAccount.watchExpiration: null
NoExpiration == -1

\* currentHistoryId: null
NoHistoryId == -1

\* GMAIL_SYNC_RETRY_POLICIES.GMAIL_API.maximumAttempts
MAXIMUM_ATTEMPTS == 5

IdleAct ==
    [pc |-> "idle", start |-> 0, todo |-> <<>>, newHistoryId |-> 0, attempt |-> 0,
     clean |-> TRUE, replayed |-> FALSE, emails0 |-> <<>>]

\* The activity is scheduled with input.startHistoryId = start.
scheduled(start) ==
    [IdleAct EXCEPT !.pc = "history", !.start = start, !.attempt = 1,
                    !.emails0 = emails]

\* The ids of a set of messages, ascending.
RECURSIVE ascending(_)
ascending(S) ==
    IF S = {} THEN <<>>
    ELSE LET least == CHOOSE x \in S : \A y \in S : x <= y
         IN  <<least>> \o ascending(S \ {least})

\* The messages added to the mailbox after history id start.
delta(start, tip) == { m \in 1..tip : m > start }

\* fetchHistory: history.list, then messages.get of every id; a get that
\* fails is logged and its message is left out of the result.
FetchHistory ==
    /\ act.pc = "history"
    /\ \E got \in SUBSET delta(act.start, mailboxHistoryId) :
         act' = [act EXCEPT
                   !.pc = IF got = {} THEN "saveHistoryId" ELSE "upsert",
                   !.todo = ascending(got),
                   !.newHistoryId = mailboxHistoryId,
                   !.clean = (got = delta(act.start, mailboxHistoryId))]
    /\ UNCHANGED <<matchVars, hookVars, workerVars,
                   emails, account, mailboxHistoryId, pipeVars, subVars>>

\* fetchHistory: history.list throws, on the last attempt or with an error
\* that is not retried.
FetchHistoryThrows ==
    /\ act.pc = "history"
    /\ act' = [act EXCEPT !.pc = "failed"]
    /\ UNCHANGED <<matchVars, hookVars, workerVars,
                   emails, account, mailboxHistoryId, pipeVars, subVars>>

\* One round of "for (const message of messages)": the upsert.
UpsertEmail ==
    /\ act.pc = "upsert"
    /\ emails' = upsertEmail(emails, Head(act.todo))
    /\ act' = [act EXCEPT !.todo = Tail(act.todo),
                          !.pc = IF Len(act.todo) = 1 THEN "saveHistoryId" ELSE "upsert"]
    /\ UNCHANGED <<matchVars, hookVars, workerVars,
                   account, mailboxHistoryId, pipeVars, subVars>>

\* One round of the loop whose upsert throws: the error is logged.
UpsertEmailThrows ==
    /\ act.pc = "upsert"
    /\ act' = [act EXCEPT !.todo = Tail(act.todo), !.clean = FALSE,
                          !.pc = IF Len(act.todo) = 1 THEN "saveHistoryId" ELSE "upsert"]
    /\ UNCHANGED <<matchVars, hookVars, workerVars,
                   emails, account, mailboxHistoryId, pipeVars, subVars>>

\* GmailAccount.findOneAndUpdate({ userId }, { historyId: newHistoryId }),
\* and the activity returns.
SaveHistoryId ==
    /\ act.pc = "saveHistoryId"
    /\ account' = [account EXCEPT !.historyId = act.newHistoryId]
    /\ act' = [act EXCEPT !.pc = "done"]
    /\ UNCHANGED <<matchVars, hookVars, workerVars,
                   emails, mailboxHistoryId, pipeVars, subVars>>

\* The worker dies while the activity runs; Temporal starts the activity
\* again, with the same input, while attempts are left.
ActivityCrash ==
    /\ act.pc \in {"upsert", "saveHistoryId"}
    /\ act' = IF act.attempt < MAXIMUM_ATTEMPTS
              THEN [act EXCEPT !.pc = "history", !.todo = <<>>,
                               !.attempt = act.attempt + 1, !.clean = TRUE,
                               !.replayed = act.replayed \/ emails # act.emails0]
              ELSE [act EXCEPT !.pc = "failed", !.todo = <<>>]
    /\ UNCHANGED <<matchVars, hookVars, workerVars,
                   emails, account, mailboxHistoryId, pipeVars, subVars>>

\* What a clean run of the activity leaves in the emails collection.
RECURSIVE upsertAll(_, _)
upsertAll(db, ms) ==
    IF ms = <<>> THEN db ELSE upsertAll(upsertEmail(db, Head(ms)), Tail(ms))

-----------------------------------------------------------------------------
(* gmailSubscriptionWorkflow                                               *)

\* GMAIL_WATCH_CONFIG
EXPIRATION_DAYS == 7

RENEWAL_BUFFER_DAYS == 5

CONTINUE_AS_NEW_DAYS == 30

\* credentials.expiry_date || Date.now() + 3600 * 1000: an access token lives
\* an hour, so it expires within the day it was issued on.
expiresAt(issued) == issued

\* The lifetimes, in days, the provider may give a watch.
WatchLifetimes == {5, EXPIRATION_DAYS}

\* Messages that arrive in the mailbox, and the last day of the clock.
MaxMail == 2

MaxDay == 30

\* No error has been caught.
NoCaught == [at |-> "none", name |-> "none", code |-> "none"]

\* What the gmail-sync activities and the provider's client throw, by
\* error.name and the provider's error code: new Error(...), and the
\* GaxiosError of a request the provider refused for good (invalid_grant: the
\* refresh token is revoked) or could not serve (unavailable).
ThrownErrors ==
    { [name |-> "Error", code |-> "none"],
      [name |-> "GaxiosError", code |-> "invalid_grant"],
      [name |-> "GaxiosError", code |-> "unavailable"] }

\* GMAIL_SYNC_RETRY_POLICIES.GMAIL_API.nonRetryableErrorTypes
NON_RETRYABLE_ERROR_TYPES == {"InvalidGrantError", "AuthenticationError"}

\* The retry policy runs the activity again after this error, at this attempt.
retried(name, attempt) ==
    name \notin NON_RETRYABLE_ERROR_TYPES /\ attempt < MAXIMUM_ATTEMPTS

\* The activities the workflow awaits outside the drain loop's try block.
OuterActivities ==
    {"saveGmailAccount", "refreshGmailToken", "setupWatch", "renewalRefresh",
     "renewGmailWatch", "deactivateGmailAccount"}

\* The workflow's state at its first line.
started(t) ==
    [pc |-> "saveGmailAccount", isActive |-> TRUE, currentHistoryId |-> NoHistoryId,
     workflowStartTime |-> t, webhookQueue |-> <<>>, webhook |-> 0, waitStart |-> t,
     attempt |-> 1, error |-> NoCaught]

\* No workflow is running.
NoWorkflow == [started(0) EXCEPT !.pc = "none"]

Running == sub.pc \notin {"none", "continueAsNew", "stopped", "error", "failed"}

\* The bottom of the main loop: the continueAsNew check, then "while (isActive)".
loopAgain(s) ==
    IF now - s.workflowStartTime >= CONTINUE_AS_NEW_DAYS
    THEN [s EXCEPT !.pc = "continueAsNew"]
    ELSE IF s.isActive THEN [s EXCEPT !.pc = "condition", !.waitStart = now]
         ELSE [s EXCEPT !.pc = "deactivateGmailAccount"]

\* The incomingWebhook handler: a message arrives under a live watch and its
\* notification reaches the running workflow.
IncomingWebhook ==
    /\ Running
    /\ watch.active /\ now <= watch.expiration
    /\ mailboxHistoryId < MaxMail
    /\ mailboxHistoryId' = mailboxHistoryId + 1
    /\ sub' = [sub EXCEPT !.webhookQueue = Append(@, mailboxHistoryId + 1)]
    /\ UNCHANGED <<matchVars, hookVars, workerVars,
                   emails, account, act, pipeVars, watch, now>>

\* The stopSync handler
StopSync ==
    /\ Running
    /\ sub.isActive
    /\ sub' = [sub EXCEPT !.isActive = FALSE]
    /\ UNCHANGED <<matchVars, hookVars, workerVars,
                   emails, syncVars, pipeVars, watch, now>>

\* Step 1: saveGmailAccount
SaveGmailAccount ==
    /\ sub.pc = "saveGmailAccount"
    /\ account' = [account EXCEPT !.exists = TRUE, !.isActive = TRUE]
    /\ sub' = [sub EXCEPT !.pc = "refreshGmailToken", !.attempt = 1]
    /\ UNCHANGED <<matchVars, hookVars, workerVars,
                   emails, mailboxHistoryId, act, pipeVars, watch, now>>

\* refreshGmailToken: step 2, and the refresh before a renewal
RefreshGmailToken ==
    /\ sub.pc \in {"refreshGmailToken", "renewalRefresh"}
    /\ account' = [account EXCEPT !.accessTokenExpiresAt = expiresAt(now),
                                  !.lastError = NoAccountError]
    /\ sub' = [sub EXCEPT !.pc = IF sub.pc = "refreshGmailToken" THEN "setupWatch"
                                 ELSE "renewGmailWatch",
                          !.attempt = 1]
    /\ UNCHANGED <<matchVars, hookVars, workerVars,
                   emails, mailboxHistoryId, act, pipeVars, watch, now>>

\* renewGmailWatch: step 3 and the renewal; the provider answers with its
\* current history id and the expiration it chose, and the workflow takes the
\* history id for its cursor.
RenewGmailWatch ==
    /\ sub.pc \in {"setupWatch", "renewGmailWatch"}
    /\ \E life \in WatchLifetimes :
         /\ watch' = [active |-> TRUE, expiration |-> now + life]
         /\ account' = [account EXCEPT !.watchExpiration = now + life,
                                       !.historyId = mailboxHistoryId,
                                       !.lastError = NoAccountError,
                                       !.errorCount = 0]
    /\ sub' = IF sub.pc = "setupWatch"
              THEN [sub EXCEPT !.currentHistoryId = mailboxHistoryId,
                               !.pc = IF sub.isActive THEN "condition"
                                      ELSE "deactivateGmailAccount",
                               !.waitStart = now, !.attempt = 1]
              ELSE loopAgain([sub EXCEPT !.currentHistoryId = mailboxHistoryId,
                                         !.attempt = 1])
    /\ UNCHANGED <<matchVars, hookVars, workerVars,
                   emails, mailboxHistoryId, act, pipeVars, now>>

\* An attempt of an activity of the initialisation, of the renewal or of the
\* cleanup throws: the retry policy runs the activity again, or the activity
\* fails for good and the outer catch takes over.
ActivityThrows ==
    /\ sub.pc \in OuterActivities
    /\ \E e \in ThrownErrors :
         sub' = IF retried(e.name, sub.attempt)
                THEN [sub EXCEPT !.attempt = sub.attempt + 1]
                ELSE [sub EXCEPT !.pc = "catch",
                                 !.error = [at |-> sub.pc, name |-> e.name,
                                            code |-> e.code]]
    /\ UNCHANGED <<matchVars, hookVars, workerVars,
                   emails, syncVars, pipeVars, watch, now>>

\* A day passes while the workflow waits in condition(..., renewalSleepMs).
Tick ==
    /\ sub.pc = "condition"
    /\ sub.webhookQueue = <<>> /\ sub.isActive
    /\ now - sub.waitStart < RENEWAL_BUFFER_DAYS
    /\ now < MaxDay
    /\ now' = now + 1
    /\ UNCHANGED <<matchVars, hookVars, workerVars,
                   emails, syncVars, pipeVars, sub, watch>>

\* condition() returns because its predicate holds.
ConditionMet ==
    /\ sub.pc = "condition"
    /\ sub.webhookQueue # <<>> \/ ~sub.isActive
    /\ sub' = [sub EXCEPT !.pc = "drain"]
    /\ UNCHANGED <<matchVars, hookVars, workerVars,
                   emails, syncVars, pipeVars, watch, now>>

\* condition() returns because renewalSleepMs has passed.
ConditionTimesOut ==
    /\ sub.pc = "condition"
    /\ sub.webhookQueue = <<>> /\ sub.isActive
    /\ now - sub.waitStart = RENEWAL_BUFFER_DAYS
    /\ sub' = [sub EXCEPT !.pc = "drain"]
    /\ UNCHANGED <<matchVars, hookVars, workerVars,
                   emails, syncVars, pipeVars, watch, now>>

\* A drain loop that takes the newest notification first (pop for shift).
ProcessWebhookNewestFirst ==
    /\ sub.pc = "drain"
    /\ sub.webhookQueue # <<>>
    /\ act.pc = "idle"
    /\ act' = scheduled(IF sub.currentHistoryId # NoHistoryId THEN sub.currentHistoryId
                        ELSE sub.webhookQueue[Len(sub.webhookQueue)])
    /\ sub' = [sub EXCEPT !.webhook = sub.webhookQueue[Len(sub.webhookQueue)],
                          !.webhookQueue = SubSeq(sub.webhookQueue, 1,
                                                  Len(sub.webhookQueue) - 1),
                          !.pc = "fetchGmailChanges"]
    /\ UNCHANGED <<matchVars, hookVars, workerVars,
                   emails, account, mailboxHistoryId, pipeVars, watch, now>>

\* "while (webhookQueue.length > 0)": shift, and fetchGmailChanges is called
\* with startHistoryId: currentHistoryId || webhook.historyId.
ProcessWebhook ==
    /\ sub.pc = "drain"
    /\ sub.webhookQueue # <<>>
    /\ act.pc = "idle"
    /\ act' = scheduled(IF sub.currentHistoryId # NoHistoryId THEN sub.currentHistoryId
                        ELSE Head(sub.webhookQueue))
    /\ sub' = [sub EXCEPT !.webhook = Head(sub.webhookQueue),
                          !.webhookQueue = Tail(sub.webhookQueue),
                          !.pc = "fetchGmailChanges"]
    /\ UNCHANGED <<matchVars, hookVars, workerVars,
                   emails, account, mailboxHistoryId, pipeVars, watch, now>>

\* A workflow that takes the notification's history id for its cursor.
FetchGmailChangesTakesNotifiedId ==
    /\ sub.pc = "fetchGmailChanges"
    /\ act.pc = "done"
    /\ sub' = [sub EXCEPT !.currentHistoryId = sub.webhook, !.webhook = 0,
                          !.pc = "drain"]
    /\ act' = IdleAct
    /\ UNCHANGED <<matchVars, hookVars, workerVars,
                   emails, account, mailboxHistoryId, pipeVars, watch, now>>

\* fetchGmailChanges has returned: currentHistoryId = changes.newHistoryId
FetchGmailChangesReturns ==
    /\ sub.pc = "fetchGmailChanges"
    /\ act.pc = "done"
    /\ sub' = [sub EXCEPT !.currentHistoryId = act.newHistoryId, !.webhook = 0,
                          !.pc = "drain"]
    /\ act' = IdleAct
    /\ UNCHANGED <<matchVars, hookVars, workerVars,
                   emails, account, mailboxHistoryId, pipeVars, watch, now>>

\* A drain loop without its try block: a failed fetchGmailChanges goes to the
\* outer catch.
FetchGmailChangesEscapes ==
    /\ sub.pc = "fetchGmailChanges"
    /\ act.pc = "failed"
    /\ sub' = [sub EXCEPT !.webhook = 0, !.pc = "catch",
                          !.error = [at |-> "fetchGmailChanges", name |-> "Error",
                                     code |-> "none"]]
    /\ act' = IdleAct
    /\ UNCHANGED <<matchVars, hookVars, workerVars,
                   emails, account, mailboxHistoryId, pipeVars, watch, now>>

\* fetchGmailChanges has failed: the catch of the drain loop
FetchGmailChangesFails ==
    /\ sub.pc = "fetchGmailChanges"
    /\ act.pc = "failed"
    /\ sub' = [sub EXCEPT !.webhook = 0, !.pc = "updateGmailAccount",
                          !.error = [at |-> "fetchGmailChanges", name |-> "Error",
                                     code |-> "none"]]
    /\ act' = IdleAct
    /\ UNCHANGED <<matchVars, hookVars, workerVars,
                   emails, account, mailboxHistoryId, pipeVars, watch, now>>

\* updateGmailAccount({ lastError, errorCount: 1 }): in the catch of the drain
\* loop, and in the outer catch, after which the workflow returns 'error'.
UpdateGmailAccount ==
    /\ sub.pc \in {"updateGmailAccount", "catch"}
    /\ account' = IF account.exists
                  THEN [account EXCEPT !.lastError = sub.error.at, !.errorCount = 1]
                  ELSE account
    /\ sub' = IF sub.pc = "catch" THEN [sub EXCEPT !.pc = "error"]
              ELSE [sub EXCEPT !.pc = "drain", !.error = NoCaught]
    /\ UNCHANGED <<matchVars, hookVars, workerVars,
                   emails, mailboxHistoryId, act, pipeVars, watch, now>>

\* updateGmailAccount fails for good: in the drain loop's catch the outer
\* catch takes over, in the outer catch the workflow itself fails.
UpdateGmailAccountThrows ==
    /\ sub.pc \in {"updateGmailAccount", "catch"}
    /\ sub' = IF sub.pc = "catch" THEN [sub EXCEPT !.pc = "failed"]
              ELSE [sub EXCEPT !.pc = "catch",
                               !.error = [at |-> "updateGmailAccount", name |-> "Error",
                                          code |-> "none"]]
    /\ UNCHANGED <<matchVars, hookVars, workerVars,
                   emails, syncVars, pipeVars, watch, now>>

\* A loop that renews only when the renewal sleep has passed.
QueueDrainedRenewsWhenDue ==
    /\ sub.pc = "drain"
    /\ sub.webhookQueue = <<>>
    /\ sub' = IF sub.isActive /\ now - sub.waitStart >= RENEWAL_BUFFER_DAYS
              THEN [sub EXCEPT !.pc = "renewalRefresh"]
              ELSE loopAgain(sub)
    /\ UNCHANGED <<matchVars, hookVars, workerVars,
                   emails, syncVars, pipeVars, watch, now>>

\* The queue is empty: "if (isActive)" and the renewal, or the bottom of the loop.
QueueDrained ==
    /\ sub.pc = "drain"
    /\ sub.webhookQueue = <<>>
    /\ sub' = IF sub.isActive THEN [sub EXCEPT !.pc = "renewalRefresh"]
              ELSE loopAgain(sub)
    /\ UNCHANGED <<matchVars, hookVars, workerVars,
                   emails, syncVars, pipeVars, watch, now>>

\* continueAsNew(input): a new run starts from the first line.
ContinueAsNew ==
    /\ sub.pc = "continueAsNew"
    /\ sub' = started(now)
    /\ UNCHANGED <<matchVars, hookVars, workerVars,
                   emails, syncVars, pipeVars, watch, now>>

\* continueAsNew(input) throws inside the try block, and the outer catch
\* takes what it throws.
ContinueAsNewCaught ==
    /\ sub.pc = "continueAsNew"
    /\ sub' = [sub EXCEPT !.pc = "catch",
                          !.error = [at |-> "continueAsNew", name |-> "ContinueAsNew",
                                     code |-> "none"]]
    /\ UNCHANGED <<matchVars, hookVars, workerVars,
                   emails, syncVars, pipeVars, watch, now>>

\* A cleanup that marks the account inactive only when stopWatch succeeded.
DeactivateOnlyIfStopped ==
    /\ sub.pc = "deactivateGmailAccount"
    /\ \E stopped \in BOOLEAN :
         /\ watch' = IF stopped THEN [watch EXCEPT !.active = FALSE] ELSE watch
         /\ account' = IF stopped
                       THEN [account EXCEPT !.isActive = FALSE,
                                            !.watchExpiration = NoExpiration]
                       ELSE account
    /\ sub' = [sub EXCEPT !.pc = "stopped", !.attempt = 1]
    /\ UNCHANGED <<matchVars, hookVars, workerVars,
                   emails, mailboxHistoryId, act, pipeVars, now>>

\* deactivateGmailAccount: stopWatch, whose failure is logged, then
\* isActive: false; the workflow returns 'stopped'.
DeactivateGmailAccount ==
    /\ sub.pc = "deactivateGmailAccount"
    /\ \E stopped \in BOOLEAN :
         watch' = IF stopped THEN [watch EXCEPT !.active = FALSE] ELSE watch
    /\ account' = [account EXCEPT !.isActive = FALSE, !.watchExpiration = NoExpiration]
    /\ sub' = [sub EXCEPT !.pc = "stopped", !.attempt = 1]
    /\ UNCHANGED <<matchVars, hookVars, workerVars,
                   emails, mailboxHistoryId, act, pipeVars, now>>

-----------------------------------------------------------------------------
(* GmailWebhookController.handleWebhook                                    *)
(* A text is a sequence of characters. "{" and "}" delimit a JSON object,  *)
(* "e" stands for the member "emailAddress": <the linked address>, "h" for  *)
(* the member "historyId": "7", "n" for the literal null and "x" for a     *)
(* character no JSON text has. "*" is a character outside the base64       *)
(* alphabet and "=" is the padding character; every other character of     *)
(* message.data is the base64 of the character it is written as.           *)

\* Longest message.data of a push payload.
MaxData == 4

JsonChars == {"{", "}", "e", "h", "n", "x"}

DataChars == JsonChars \cup {"*", "="}

\* req.body without a message
NoMessage == <<"no message">>

\* The bodies POST /api/gmail/webhook may receive: message.data, or no message.
Payloads ==
    {NoMessage} \cup UNION { [1..n -> DataChars] : n \in 0..MaxData }

\* A property the parsed value does not have.
Undefined == "undefined"

\* The address of the tenant's GmailAccount, and the history id of "h".
LinkedAddress == "linked"

NotifiedHistoryId == "7"

\* account.workflowId, as saveGmailAccount stored it: the id linkAccount made
\* from the tenant's userId.
LinkedWorkflowId == "gmail-subscription-u1"

\* No workflow id
NoWorkflowId == "none"

\* The characters of data before its first "=", or all of them.
beforePadding(data) ==
    IF \E i \in 1..Len(data) : data[i] = "="
    THEN SubSeq(data, 1, (CHOOSE i \in 1..Len(data) :
                            data[i] = "=" /\ \A j \in 1..(i - 1) : data[j] # "=") - 1)
    ELSE data

\* Buffer.from(data, 'base64').toString('utf-8'): characters outside the
\* alphabet are skipped and decoding stops at the padding; it never throws.
base64Decode(data) ==
    SelectSeq(beforePadding(data), LAMBDA c : c \in JsonChars)

\* JSON.parse accepts the text.
isJson(text) ==
    \/ text = <<"n">>
    \/ /\ Len(text) >= 2
       /\ text[1] = "{"
       /\ text[Len(text)] = "}"
       /\ \A i \in 2..(Len(text) - 1) : text[i] \in {"e", "h"}

\* JSON.parse(text) of a text it accepts, as the properties the handler reads.
jsonParse(text) ==
    [isNull |-> text = <<"n">>,
     emailAddress |-> IF \E i \in 1..Len(text) : text[i] = "e"
                      THEN LinkedAddress ELSE Undefined,
     historyId |-> IF \E i \in 1..Len(text) : text[i] = "h"
                   THEN NotifiedHistoryId ELSE Undefined]

NoNotification == [isNull |-> TRUE, emailAddress |-> Undefined, historyId |-> Undefined]

NoRequest ==
    [pc |-> "none", payload |-> NoMessage, notification |-> NoNotification,
     queries |-> <<>>, signals |-> <<>>, workflowId |-> NoWorkflowId, status |-> 0,
     body |-> "none"]

\* The handler's catch block: res.status(500).json({ error: ... })
failed(h) == [h EXCEPT !.pc = "responded", !.status = 500,
                       !.body = "webhook_processing_failed"]

\* Lines 23-33: payload.message.data, Buffer.from, JSON.parse, and the
\* properties read for the log line. A payload without a message, a text
\* JSON.parse refuses and the value null throw into the catch block.
DecodeNotification ==
    /\ hook.pc = "received"
    /\ hook' =
         IF hook.payload = NoMessage \/ ~isJson(base64Decode(hook.payload))
            \/ jsonParse(base64Decode(hook.payload)).isNull
         THEN failed(hook)
         ELSE [hook EXCEPT !.notification = jsonParse(base64Decode(hook.payload)),
                           !.pc = "findOne"]
    /\ UNCHANGED <<matchVars, emails, syncVars, pipeVars, subVars, workerVars>>

\* A query that does not ask for isActive: true.
GmailAccountFindOneAnyAccount ==
    /\ hook.pc = "findOne"
    /\ LET q == [email |-> hook.notification.emailAddress, isActive |-> TRUE]
           h == [hook EXCEPT !.queries = Append(hook.queries, q)]
       IN  hook' =
             IF account.exists /\ q.email = LinkedAddress
             THEN [h EXCEPT !.pc = "signalWithStart"]
             ELSE [h EXCEPT !.pc = "responded", !.status = 200, !.body = "ignored"]
    /\ UNCHANGED <<matchVars, emails, syncVars, pipeVars, subVars, workerVars>>

\* GmailAccount.findOne({ email: notification.emailAddress, isActive: true })
\* and "if (!account)". Every account has an email (it is a required path),
\* so an undefined emailAddress matches none.
GmailAccountFindOne ==
    /\ hook.pc = "findOne"
    /\ LET q == [email |-> hook.notification.emailAddress, isActive |-> TRUE]
           h == [hook EXCEPT !.queries = Append(hook.queries, q)]
       IN  hook' =
             IF account.exists /\ account.isActive /\ q.email = LinkedAddress
             THEN [h EXCEPT !.pc = "signalWithStart"]
             ELSE [h EXCEPT !.pc = "responded", !.status = 200, !.body = "ignored"]
    /\ UNCHANGED <<matchVars, emails, syncVars, pipeVars, subVars, workerVars>>

\* The query is rejected (the store is unreachable).
GmailAccountFindOneThrows ==
    /\ hook.pc = "findOne"
    /\ hook' = failed([hook EXCEPT !.queries =
                         Append(hook.queries,
                                [email |-> hook.notification.emailAddress,
                                 isActive |-> TRUE])])
    /\ UNCHANGED <<matchVars, emails, syncVars, pipeVars, subVars, workerVars>>

\* getTemporalClient, client.workflow.signalWithStart, and the 200 response
SignalWithStart ==
    /\ hook.pc = "signalWithStart"
    /\ hook' = [hook EXCEPT
                  !.signals = Append(hook.signals,
                                     [emailAddress |-> hook.notification.emailAddress,
                                      historyId |-> hook.notification.historyId]),
                  !.workflowId = LinkedWorkflowId,
                  !.pc = "responded", !.status = 200, !.body = "processed"]
    /\ UNCHANGED <<matchVars, emails, syncVars, pipeVars, subVars, workerVars>>

\* getTemporalClient or signalWithStart is rejected.
SignalWithStartThrows ==
    /\ hook.pc = "signalWithStart"
    /\ hook' = failed(hook)
    /\ UNCHANGED <<matchVars, emails, syncVars, pipeVars, subVars, workerVars>>

-----------------------------------------------------------------------------
(* createGmailSyncActivities: one GmailSyncClient, with one OAuth2Client,  *)
(* serves the activities of every tenant the worker runs. A token is named *)
(* by the tenant it was issued to. A provider call hands the OAuth2Client  *)
(* itself to the library (auth: this.oauth2Client) and awaits the promise: *)
(* the library takes the credentials from the client when it sends the     *)
(* request, a step the activities of other tenants are not ordered against.*)

Tenants == {"A", "B"}

NoToken == "none"

\* The provider's mailboxes: message id 1 exists in both, with its own content.
MailboxOf ==
    [t \in Tenants |->
       [historyId |-> t, ids |-> IF t = "A" THEN {1} ELSE {1, 2}]]

MessageIds == UNION { MailboxOf[t].ids : t \in Tenants }

NoCredentials == [access_token |-> NoToken, refresh_token |-> NoToken]

NoEmailDoc == [fetchedBy |-> "none", mailbox |-> "none"]

IdleActivity ==
    [pc |-> "idle", activity |-> "none", api |-> "none", id |-> 0, sent |-> NoToken,
     todo |-> {}, messages |-> {}, newHistoryId |-> "none"]

NewWorker ==
    [credentials |-> NoCredentials,
     act |-> [t \in Tenants |-> IdleActivity],
     emails |-> [id \in MessageIds |-> NoEmailDoc],
     accounts |-> [t \in Tenants |-> [historyId |-> "none"]]]

\* this.oauth2Client.setCredentials(c): the client's credentials are replaced
setCredentials(w, c) == [w EXCEPT !.credentials = c]

\* The activity awaits a provider call.
awaiting(a, api, id) == [a EXCEPT !.pc = "request", !.api = api, !.id = id]

\* refreshGmailToken: client.refreshAccessToken(input.refreshToken), up to its await
RefreshAccessToken(t) ==
    /\ worker.act[t].pc = "idle"
    /\ worker' = [setCredentials(worker, [NoCredentials EXCEPT !.refresh_token = t])
                    EXCEPT !.act[t] = awaiting([IdleActivity EXCEPT
                                                  !.activity = "refreshGmailToken"],
                                               "token", 0)]
    /\ UNCHANGED <<matchVars, hookVars, emails, syncVars, pipeVars, subVars>>

\* renewGmailWatch: client.setupWatch(input.accessToken, ...), up to its await
SetupWatch(t) ==
    /\ worker.act[t].pc = "idle"
    /\ worker' = [setCredentials(worker, [NoCredentials EXCEPT !.access_token = t])
                    EXCEPT !.act[t] = awaiting([IdleActivity EXCEPT
                                                  !.activity = "renewGmailWatch"],
                                               "users.watch", 0)]
    /\ UNCHANGED <<matchVars, hookVars, emails, syncVars, pipeVars, subVars>>

\* fetchGmailChanges: client.fetchHistory(input.accessToken, ...), up to its await
FetchHistoryList(t) ==
    /\ worker.act[t].pc = "idle"
    /\ worker' = [setCredentials(worker, [NoCredentials EXCEPT !.access_token = t])
                    EXCEPT !.act[t] = awaiting([IdleActivity EXCEPT
                                                  !.activity = "fetchGmailChanges"],
                                               "history.list", 0)]
    /\ UNCHANGED <<matchVars, hookVars, emails, syncVars, pipeVars, subVars>>

\* fetchHistory's loop: fetchMessage(accessToken, messageId), up to its await;
\* after the last message fetchHistory returns.
FetchMessage(t) ==
    /\ worker.act[t].pc = "fetchMessage"
    /\ LET a == worker.act[t]
       IN  IF a.todo = {}
           THEN worker' = [worker EXCEPT !.act[t].pc = "upsert"]
           ELSE LET messageId == CHOOSE id \in a.todo : \A other \in a.todo : id <= other
                IN  worker' =
                      [setCredentials(worker, [NoCredentials EXCEPT !.access_token = t])
                         EXCEPT !.act[t] = awaiting(a, "messages.get", messageId)]
    /\ UNCHANGED <<matchVars, hookVars, emails, syncVars, pipeVars, subVars>>

\* The library sends the awaited request with the credentials the client holds.
SendRequest(t) ==
    /\ worker.act[t].pc = "request"
    /\ worker' = [worker EXCEPT
                    !.act[t].pc = "response",
                    !.act[t].sent = IF worker.act[t].api = "token"
                                    THEN worker.credentials.refresh_token
                                    ELSE worker.credentials.access_token]
    /\ UNCHANGED <<matchVars, hookVars, emails, syncVars, pipeVars, subVars>>

\* The awaited call of refreshAccessToken or setupWatch settles: without a
\* credential it rejects and the activity fails, else the activity goes on
\* to its GmailAccount update.
ProviderReturns(t) ==
    /\ worker.act[t].pc = "response"
    /\ worker.act[t].api \in {"token", "users.watch"}
    /\ LET a == worker.act[t]
       IN  worker' = [worker EXCEPT !.act[t] =
                        IF a.sent = NoToken THEN IdleActivity
                        ELSE [a EXCEPT !.pc = "accountUpdate",
                                       !.newHistoryId =
                                          IF a.api = "users.watch"
                                          THEN MailboxOf[a.sent].historyId
                                          ELSE "none"]]
    /\ UNCHANGED <<matchVars, hookVars, emails, syncVars, pipeVars, subVars>>

\* gmail.users.history.list settles: the history of the mailbox the token
\* opens, from which fetchHistory collects messageIds.
HistoryListReturns(t) ==
    /\ worker.act[t].pc = "response"
    /\ worker.act[t].api = "history.list"
    /\ LET a == worker.act[t]
       IN  worker' = [worker EXCEPT !.act[t] =
                        IF a.sent = NoToken THEN IdleActivity
                        ELSE [a EXCEPT !.pc = "fetchMessage",
                                       !.todo = MailboxOf[a.sent].ids,
                                       !.newHistoryId = MailboxOf[a.sent].historyId]]
    /\ UNCHANGED <<matchVars, hookVars, emails, syncVars, pipeVars, subVars>>

\* gmail.users.messages.get settles: the message of that id in the mailbox
\* the token opens; a rejection is caught and logged by fetchHistory.
MessagesGetReturns(t) ==
    /\ worker.act[t].pc = "response"
    /\ worker.act[t].api = "messages.get"
    /\ LET a == worker.act[t]
           found == a.sent # NoToken /\ a.id \in MailboxOf[a.sent].ids
       IN  worker' = [worker EXCEPT !.act[t] =
                        [a EXCEPT !.pc = "fetchMessage",
                                  !.todo = a.todo \ {a.id},
                                  !.messages =
                                     IF found
                                     THEN a.messages \cup {[id |-> a.id, mailbox |-> a.sent]}
                                     ELSE a.messages]]
    /\ UNCHANGED <<matchVars, hookVars, emails, syncVars, pipeVars, subVars>>

\* fetchGmailChanges: Email.findOneAndUpdate({ emailId: message.id }, { ...,
\* fetchedBy: gmail-sync-<userId> }, { upsert: true }) for each message
UpsertFetchedEmail(t) ==
    /\ worker.act[t].pc = "upsert"
    /\ LET a == worker.act[t]
       IN  IF a.messages = {}
           THEN worker' = [worker EXCEPT !.act[t].pc = "accountUpdate"]
           ELSE \E message \in a.messages :
                  /\ \A other \in a.messages : message.id <= other.id
                  /\ worker' = [worker EXCEPT
                                  !.emails[message.id] =
                                     [fetchedBy |-> t, mailbox |-> message.mailbox],
                                  !.act[t].messages = a.messages \ {message}]
    /\ UNCHANGED <<matchVars, hookVars, emails, syncVars, pipeVars, subVars>>

\* GmailAccount.findOneAndUpdate({ userId: input.userId }, ...) of the three
\* activities; refreshGmailToken writes no historyId.
AccountUpdate(t) ==
    /\ worker.act[t].pc = "accountUpdate"
    /\ worker' = [worker EXCEPT
                    !.accounts[t].historyId =
                       IF worker.act[t].activity = "refreshGmailToken"
                       THEN worker.accounts[t].historyId
                       ELSE worker.act[t].newHistoryId,
                    !.act[t] = IdleActivity]
    /\ UNCHANGED <<matchVars, hookVars, emails, syncVars, pipeVars, subVars>>

-----------------------------------------------------------------------------
(* Initial values                                                          *)

NoWatch == [active |-> FALSE, expiration |-> 0]

NoAccount ==
    [exists |-> FALSE, historyId |-> 0, isActive |-> FALSE,
     watchExpiration |-> NoExpiration, accessTokenExpiresAt |-> NoExpiration,
     lastError |-> NoAccountError, errorCount |-> 0]

\* No pipeline has run.
PipeIdle ==
    /\ transactions = <<>>
    /\ matchCount = [i \in 1..Len(PipePatterns) |-> 0]
    /\ proc = [p \in Procs |-> IdleProc]
    /\ runs = 0
    /\ extractCalls = {}

\* No subscription workflow runs.
SubIdle ==
    /\ sub = NoWorkflow
    /\ watch = NoWatch
    /\ now = 0

\* No push notification is being handled.
HookIdle == hook = NoRequest

\* The worker has just called createGmailSyncActivities.
WorkerIdle == worker = NewWorker

\* An empty store and an idle activity worker.
StoreEmpty ==
    /\ emails = <<>>
    /\ account = NoAccount
    /\ act = IdleAct

-----------------------------------------------------------------------------
(* SpecMatch: one call of findMatchingPattern on a collection and an e-mail *)

InitMatch ==
    /\ patterns \in Collections
    /\ email \in Emails
    /\ matchResult = NoPattern
    /\ matchOrder = <<>>
    /\ matchPc = "ready"
    /\ StoreEmpty /\ mailboxHistoryId = 0
    /\ PipeIdle
    /\ SubIdle
    /\ HookIdle
    /\ WorkerIdle

FindMatchingPattern ==
    /\ matchPc = "ready"
    /\ \E found \in findAllActive(patterns) :
         /\ matchOrder' = [i \in 1..Len(found) |-> found[i].id]
         /\ matchResult' = findMatchingPattern(found, email)
    /\ matchPc' = "done"
    /\ UNCHANGED <<patterns, email, emails, syncVars, pipeVars, subVars, hookVars,
                   workerVars>>

\* The matchEmailPattern activity of the presentation layer: new Email('',
\* input.from, input.subject, input.body, new Date(), ''), then
\* patternRepository.findMatchingPattern(email).
MatchEmailPatternActivity ==
    /\ matchPc = "ready"
    /\ IF validate(<<>>, email.from)
       THEN /\ \E found \in findAllActive(patterns) :
                 /\ matchOrder' = [i \in 1..Len(found) |-> found[i].id]
                 /\ matchResult' = findMatchingPattern(found, email)
            /\ matchPc' = "done"
       ELSE /\ UNCHANGED <<matchOrder, matchResult>>
            /\ matchPc' = "threw"
    /\ UNCHANGED <<patterns, email, emails, syncVars, pipeVars, subVars, hookVars,
                   workerVars>>

\* The matchEmailPattern activity the workflows call (email.controller.ts):
\* EmailPattern.find({ isActive: true }).sort({ priority: -1 }), then the
\* first rule of the list that passes the three tests.
ControllerMatchEmailPattern ==
    /\ matchPc = "ready"
    /\ \E found \in findAllActive(patterns) :
         /\ matchOrder' = [i \in 1..Len(found) |-> found[i].id]
         /\ matchResult' = matchEmailPattern(found, email)
    /\ matchPc' = "returned"
    /\ UNCHANGED <<patterns, email, emails, syncVars, pipeVars, subVars, hookVars,
                   workerVars>>

NextMatch ==
    \/ FindMatchingPattern
    \/ MatchEmailPatternActivity
    \/ ControllerMatchEmailPattern

SpecMatch == InitMatch /\ [][NextMatch]_vars

-----------------------------------------------------------------------------
(* SpecPipe: the three pipelines and fetchGmailChanges, MaxRuns runs in     *)
(* all, interleaved on one store; the activity worker does not crash here.  *)

InitPipe ==
    /\ patterns = PipePatterns
    /\ email = Mailbox[1]
    /\ matchResult = NoPattern
    /\ matchOrder = <<>>
    /\ matchPc = "off"
    /\ emails = <<>>
    /\ account = [NoAccount EXCEPT !.exists = TRUE, !.isActive = TRUE]
    /\ mailboxHistoryId = Len(Mailbox)
    /\ act = IdleAct
    /\ PipeIdle
    /\ SubIdle
    /\ HookIdle
    /\ WorkerIdle

\* The tenant's subscription workflow calls fetchGmailChanges.
SubscriptionFetches ==
    /\ sub.pc = "none"
    /\ act.pc = "idle"
    /\ runs < MaxRuns
    /\ \E start \in 0..(mailboxHistoryId - 1) :
         act' = [scheduled(start) EXCEPT !.emails0 = <<>>]
    /\ runs' = runs + 1
    /\ UNCHANGED <<matchVars, hookVars, workerVars,
                   emails, account, mailboxHistoryId, transactions,
                   matchCount, proc, extractCalls, subVars>>

\* The call of fetchGmailChanges is over.
SubscriptionFetchEnds ==
    /\ sub.pc = "none"
    /\ act.pc \in {"done", "failed"}
    /\ act' = IdleAct
    /\ UNCHANGED <<matchVars, hookVars, workerVars,
                   emails, account, mailboxHistoryId, pipeVars, subVars>>

NextPipe ==
    \/ \E p \in Procs :
         \/ FetchEmails(p)
         \/ SaveEmailFind(p)
         \/ SaveEmailInsert(p)
         \/ SaveEmailThrows(p)
         \/ GetUnprocessedEmails(p)
         \/ MatchEmailPattern(p)
         \/ ExtractTransactionFromEmail(p)
         \/ ExtractTransactionFromEmailThrows(p)
         \/ SaveTransactionFind(p)
         \/ SaveTransactionInsert(p)
         \/ SaveTransactionThrows(p)
         \/ UpdateEmailPatternStatsRead(p)
         \/ UpdateEmailPatternStatsSave(p)
         \/ MarkEmailAsProcessed(p)
         \/ MarkEmailAsProcessedThrows(p)
         \/ UpdateEmailProcessing(p)
         \/ EmailRepoExists(p)
         \/ EmailRepoSave(p)
         \/ EmailRepoSaveThrows(p)
         \/ TransactionRepoFindByEmailId(p)
         \/ PatternRepoFindMatchingPattern(p)
         \/ ExtractTransaction(p)
         \/ ExtractTransactionThrows(p)
         \/ TransactionRepoSave(p)
         \/ UpdateProcessingStatus(p)
    \/ SubscriptionFetches
    \/ FetchHistory
    \/ FetchHistoryThrows
    \/ UpsertEmail
    \/ UpsertEmailThrows
    \/ SaveHistoryId
    \/ SubscriptionFetchEnds

SpecPipe == InitPipe /\ [][NextPipe]_vars

\* MongoDBEmailRepository.markAsProcessed, which the markEmailAsProcessed
\* activity of the presentation layer hands its emailId to:
\* EmailModel.updateOne({ emailId }, { $set: { isProcessed: true } }). The
\* update reads nothing and sets neither transactionId nor processingError;
\* it changes no document when none has the emailId.
MarkAsProcessed(emailId) ==
    /\ emails' = [i \in 1..Len(emails) |->
                    IF i = findEmail(emails, emailId)
                    THEN [emails[i] EXCEPT !.isProcessed = TRUE]
                    ELSE emails[i]]
    /\ UNCHANGED <<matchVars, hookVars, workerVars, syncVars, pipeVars, subVars>>

\* The pipelines on a store that the activities of the presentation layer
\* write to as well.
NextRepo ==
    \/ NextPipe
    \/ \E emailId \in 1..Len(Mailbox) : MarkAsProcessed(emailId)

SpecRepo == InitPipe /\ [][NextRepo]_vars

-----------------------------------------------------------------------------
(* SpecSub: one tenant's gmailSubscriptionWorkflow, its activities, the     *)
(* provider and the clock.                                                  *)

InitSub ==
    /\ patterns = PipePatterns
    /\ email = Mailbox[1]
    /\ matchResult = NoPattern
    /\ matchOrder = <<>>
    /\ matchPc = "off"
    /\ StoreEmpty
    /\ mailboxHistoryId = 0
    /\ PipeIdle
    /\ sub = started(0)
    /\ watch = NoWatch
    /\ now = 0
    /\ HookIdle
    /\ WorkerIdle

NextSub ==
    \/ IncomingWebhook
    \/ StopSync
    \/ SaveGmailAccount
    \/ RefreshGmailToken
    \/ RenewGmailWatch
    \/ ActivityThrows
    \/ Tick
    \/ ConditionMet
    \/ ConditionTimesOut
    \/ ProcessWebhook
    \/ FetchHistory
    \/ FetchHistoryThrows
    \/ UpsertEmail
    \/ UpsertEmailThrows
    \/ SaveHistoryId
    \/ ActivityCrash
    \/ FetchGmailChangesReturns
    \/ FetchGmailChangesFails
    \/ UpdateGmailAccount
    \/ UpdateGmailAccountThrows
    \/ QueueDrained
    \/ ContinueAsNew
    \/ ContinueAsNewCaught
    \/ DeactivateGmailAccount

SpecSub == InitSub /\ [][NextSub]_vars

\* The steps the workflow and its activities take by themselves: Temporal
\* runs a workflow task that is ready, and an activity that was scheduled
\* comes back.
SubProgress ==
    \/ SaveGmailAccount
    \/ RefreshGmailToken
    \/ RenewGmailWatch
    \/ ConditionMet
    \/ ConditionTimesOut
    \/ ProcessWebhook
    \/ FetchHistory
    \/ UpsertEmail
    \/ SaveHistoryId
    \/ FetchGmailChangesReturns
    \/ FetchGmailChangesFails
    \/ UpdateGmailAccount
    \/ QueueDrained
    \/ ContinueAsNew
    \/ DeactivateGmailAccount

\* SpecSub with a scheduler that does not leave the workflow waiting.
SpecSubLive == SpecSub /\ WF_vars(SubProgress)

-----------------------------------------------------------------------------
(* SpecHook: one push payload arrives at POST /api/gmail/webhook; the      *)
(* tenant's account is linked, and active or not.                          *)

InitHook ==
    /\ patterns = PipePatterns
    /\ email = Mailbox[1]
    /\ matchResult = NoPattern
    /\ matchOrder = <<>>
    /\ matchPc = "off"
    /\ emails = <<>>
    /\ \E active \in BOOLEAN :
         account = [NoAccount EXCEPT !.exists = TRUE, !.isActive = active]
    /\ mailboxHistoryId = 0
    /\ act = IdleAct
    /\ PipeIdle
    /\ SubIdle
    /\ WorkerIdle
    /\ \E payload \in Payloads :
         hook = [NoRequest EXCEPT !.pc = "received", !.payload = payload]

NextHook ==
    \/ DecodeNotification
    \/ GmailAccountFindOne
    \/ GmailAccountFindOneThrows
    \/ SignalWithStart
    \/ SignalWithStartThrows

SpecHook == InitHook /\ [][NextHook]_vars

-----------------------------------------------------------------------------
(* SpecWorker: the subscription workflows of two tenants schedule their    *)
(* gmail-sync activities on one worker.                                    *)

InitWorker ==
    /\ patterns = PipePatterns
    /\ email = Mailbox[1]
    /\ matchResult = NoPattern
    /\ matchOrder = <<>>
    /\ matchPc = "off"
    /\ StoreEmpty
    /\ mailboxHistoryId = 0
    /\ PipeIdle
    /\ SubIdle
    /\ HookIdle
    /\ WorkerIdle

NextWorker ==
    \E t \in Tenants :
       \/ RefreshAccessToken(t)
       \/ SetupWatch(t)
       \/ FetchHistoryList(t)
       \/ FetchMessage(t)
       \/ SendRequest(t)
       \/ ProviderReturns(t)
       \/ HistoryListReturns(t)
       \/ MessagesGetReturns(t)
       \/ UpsertFetchedEmail(t)
       \/ AccountUpdate(t)

SpecWorker == InitWorker /\ [][NextWorker]_vars

-----------------------------------------------------------------------------
(* The ingestion pipelines: claims C1, C7, C8, C9                           *)

\* What a run reports about an e-mail it found, or put, in the store.
StoredOutcomes == {"stored", "no pattern", "low confidence", "processed", "skipped"}

C7_NoLowConfidenceTransaction ==
    \A i \in 1..Len(transactions) : transactions[i].confidence >= CONFIDENCE_THRESHOLD

\* C7 witness: the use case and a workflow have both turned an extraction
\* down for low confidence, and the store holds no Transaction.
C7_Witness ==
    /\ proc["uc"].last.outcome = "low confidence"
    /\ \E p \in Workflows : proc[p].last.outcome = "low confidence"
    /\ transactions = <<>>

\* The steps of a pipeline behind an accepting, and behind a rejecting, gate.
AcceptedPcs ==
    {"saveTransaction", "saveTransactionInsert", "statsOk", "statsOkSave", "label",
     "updateProcessed", "transactionSave"}

RejectedPcs == {"statsFail", "statsFailSave", "lowConfidence", "ucLowConfidence"}

CatchPcs == {"catch", "ucCatch"}

\* C8: a pipeline whose extraction has the confidence of the threshold is on
\* the accepting side of its gate (or in the catch block, after a later
\* failure), and one whose extraction is one unit below is on the rejecting
\* side.
C8_GateBoundary ==
    \A p \in Procs :
      /\ proc[p].conf = CONFIDENCE_THRESHOLD => proc[p].pc \in AcceptedPcs \cup CatchPcs
      /\ proc[p].conf = CONFIDENCE_THRESHOLD - 1 => proc[p].pc \in RejectedPcs

\* C8 witness: one pipeline has accepted a confidence of the threshold while
\* another has rejected a confidence one unit below.
C8_Witness ==
    \E p, q \in Procs :
      /\ proc[p].conf = CONFIDENCE_THRESHOLD /\ proc[p].pc \in AcceptedPcs
      /\ proc[q].conf = CONFIDENCE_THRESHOLD - 1 /\ proc[q].pc \in RejectedPcs

\* The e-mails whose sender is in no rule's from list.
NoRuleSender ==
    { m \in 1..Len(Mailbox) :
        \A i \in 1..Len(patterns) :
          ~someIncluded(patterns[i].fromAddresses, Mailbox[m].from) }

\* C9: for an e-mail whose sender is in no rule's from list, the extraction
\* service is never called, a workflow that is through with it reports "no
\* pattern" unless saveEmail failed, and it is in the store when "no pattern"
\* is reported.
C9_NoRuleNoExtraction ==
    \A m \in NoRuleSender :
      /\ m \notin extractCalls
      /\ \A p \in Workflows :
           proc[p].last.emailId = m =>
             /\ proc[p].last.outcome \in {"stored", "no pattern", "store failed", "error"}
             /\ proc[p].last.outcome = "no pattern" => emailDocsWith(emails, m) # {}

\* C9 witness: both workflows have reported "no pattern" for the e-mail of
\* id 2, which is in the store, and the extraction service was not called.
C9_Witness ==
    /\ 2 \in NoRuleSender
    /\ \A p \in Workflows : proc[p].last = [emailId |-> 2, outcome |-> "no pattern"]
    /\ emailDocsWith(emails, 2) # {}
    /\ extractCalls = {}

-----------------------------------------------------------------------------
(* The subscription workflow: claims C2 .. C6                               *)

\* C2 (as claimed): when the workflow returns or continues as new, no
\* notification is left in webhookQueue.
C2_NoNotificationDropped ==
    sub.pc \in {"continueAsNew", "stopped", "error"} => sub.webhookQueue = <<>>

\* C2: the workflow, still active, continues as new with a notification in
\* its queue.
C2_DroppedAtContinueAsNew ==
    /\ sub.pc = "continueAsNew"
    /\ sub.isActive
    /\ sub.webhookQueue # <<>>

\* C3 (as claimed): when fetchGmailChanges has moved the cursor over a delta,
\* every message of the delta is in the store or the account records a
\* failure.
C3_CursorCoversOnlyStored ==
    act.pc = "done" =>
      \A m \in delta(act.start, account.historyId) :
        \/ emailDocsWith(emails, m) # {}
        \/ account.lastError # NoAccountError

\* C3: the cursor is past a message that is not in the store, and no failure
\* is recorded.
C3_CursorPastLostMessage ==
    /\ act.pc = "done"
    /\ account.lastError = NoAccountError
    /\ \E m \in delta(act.start, account.historyId) : emailDocsWith(emails, m) = {}

C5_NoFetchAfterStop ==
    [][(sub.pc = "drain" /\ sub'.pc = "fetchGmailChanges") => sub.isActive]_vars

\* C5: a fetch is in flight for a notification that was dequeued after the
\* stop request.
C5_FetchAfterStop ==
    /\ sub.pc = "fetchGmailChanges"
    /\ ~sub.isActive
    /\ act.pc = "history" /\ act.attempt = 1
    /\ sub.webhookQueue # <<>>

\* C6 (as claimed): with no notification, the wait before a renewal ends when
\* the watch is the safety buffer (EXPIRATION_DAYS - RENEWAL_BUFFER_DAYS: two
\* days) short of its expiry.
C6_RenewsAtExpiryMinusBuffer ==
    [][(/\ sub.pc = "condition" /\ sub'.pc = "drain"
        /\ sub.webhookQueue = <<>> /\ sub.isActive)
       => now = watch.expiration - (EXPIRATION_DAYS - RENEWAL_BUFFER_DAYS)]_vars

\* C6: a watch that expires five days after its registration is renewed on
\* the day it expires.
C6_RenewsAtExpiry ==
    /\ sub.pc = "renewGmailWatch"
    /\ sub.webhookQueue = <<>>
    /\ mailboxHistoryId = 0
    /\ now = watch.expiration
    /\ now - sub.waitStart = RENEWAL_BUFFER_DAYS

-----------------------------------------------------------------------------
(* The matcher: claim C10                                                  *)

\* The rules of the collection that survive the matcher's two filters.
Survivors ==
    { i \in 1..Len(patterns) :
        /\ patterns[i].isActive
        /\ calculateMatchScore(patterns[i], email.from, email.subject, email.body) > 0
        /\ matches(patterns[i], email.from, email.subject, email.body) }

ScoreOf(i) == calculateMatchScore(patterns[i], email.from, email.subject, email.body)

\* The survivors of the highest score.
TopSurvivors == { i \in Survivors : \A j \in Survivors : ScoreOf(j) <= ScoreOf(i) }

\* C29: for every rule of the collection and the message, the match score is
\* the priority, plus 10 if a from-address equals the sender whatever the
\* case, else 5 if a from-address is in the sender whatever the case, else 0,
\* plus 2 for every subject pattern that hits, plus 1 for every body keyword
\* that hits.
C29_ScoreFormula ==
    \A i \in 1..Len(patterns) :
       LET r == patterns[i]
           sender == toLowerCase(email.from)
           exact == \E k \in 1..Len(r.fromAddresses) :
                       toLowerCase(r.fromAddresses[k]) = sender
           partial == \E k \in 1..Len(r.fromAddresses) :
                         includes(sender, toLowerCase(r.fromAddresses[k]))
           subjectHits == { k \in 1..Len(r.subjectPatterns) :
                              includes(toLowerCase(email.subject),
                                       toLowerCase(r.subjectPatterns[k])) }
           bodyHits == { k \in 1..Len(r.bodyKeywords) :
                           includes(toLowerCase(email.body), toLowerCase(r.bodyKeywords[k])) }
       IN  ScoreOf(i) = r.priority
                        + (IF exact THEN 10 ELSE IF partial THEN 5 ELSE 0)
                        + 2 * Cardinality(subjectHits) + Cardinality(bodyHits)

\* C29 witness: the matcher has scored two rules for the sender "ab": one
\* whose from-address "AB" equals it but for the case (10 + 10), and one
\* with the from-address "b", a subject pattern that hits and two body
\* keywords that hit (0 + 5 + 2 + 2), and has returned the first.
C29_Witness ==
    /\ matchPc = "done"
    /\ email = [from |-> <<"a","b">>, subject |-> <<"P","q">>, body |-> <<"z","k","z">>]
    /\ Len(patterns) = 2
    /\ patterns[1].fromAddresses = << <<"z","z">>, <<"A","B">> >> /\ ScoreOf(1) = 20
    /\ Len(patterns[2].bodyKeywords) = 2 /\ ScoreOf(2) = 9
    /\ matchResult = 1

\* C28: a call of the matcher on a message that no rule matches ends with
\* the result null, and does not throw, on the repository path and on the
\* activity path.
C28_UnmatchedIsNullNeverThrows ==
    Survivors = {} =>
       /\ matchPc # "threw"
       /\ matchPc = "done" => matchResult = NoPattern

\* C28: the matchEmailPattern activity has thrown on a message that no rule
\* of the collection matches.
C28_UnmatchedThrows ==
    matchPc = "threw" /\ Survivors = {} /\ validate(<<"1">>, email.from)

\* C30: the rule a matcher returns is active, one of its from-addresses is
\* in the sender, its score is above 0, and of the subject patterns it
\* declares, and of the body keywords it declares, at least one matches.
C30_ResultMeetsRequirements ==
    matchPc \in {"done", "returned"} /\ matchResult # NoPattern =>
       LET r == patterns[matchResult]
       IN  /\ r.isActive
           /\ someIncluded(r.fromAddresses, email.from)
           /\ ScoreOf(matchResult) > 0
           /\ Len(r.subjectPatterns) > 0 => someIncluded(r.subjectPatterns, email.subject)
           /\ Len(r.bodyKeywords) > 0 => someIncluded(r.bodyKeywords, email.body)

\* C30: the workflows' matchEmailPattern activity has returned a rule whose
\* score for the message is not above 0.
C30_NonPositiveScoreReturned ==
    /\ matchPc = "returned"
    /\ matchResult # NoPattern
    /\ ScoreOf(matchResult) <= 0

\* What findAllActive answered in the call that has ended: the rules of
\* matchOrder.
foundRules == [k \in 1..Len(matchOrder) |-> patterns[matchOrder[k]]]

\* C39: what the workflows' matchEmailPattern returns for a message is what
\* the repository's findMatchingPattern returns for it on the same answer of
\* the store: both null, or both the same rule.
C39_MatchersAgree ==
    matchPc = "returned" => matchResult = findMatchingPattern(foundRules, email)

\* C39: on a collection of one rule, which declares no subject pattern and
\* lists the sender, matchEmailPattern has returned null while
\* findMatchingPattern selects the rule.
C39_MatchersDisagree ==
    /\ matchPc = "returned"
    /\ Len(patterns) = 1 /\ patterns[1].subjectPatterns = <<>>
    /\ matchResult = NoPattern
    /\ findMatchingPattern(foundRules, email) = 1

\* C10 (as amended): the matcher returns a rule of the highest score, and of
\* two surviving rules of that score the one of lower priority is never
\* returned.
C10_TieByPriority ==
    matchPc = "done" =>
      IF Survivors = {} THEN matchResult = NoPattern
      ELSE /\ matchResult \in TopSurvivors
           /\ \A j \in TopSurvivors :
                patterns[j].priority <= patterns[matchResult].priority

\* C10 witness: two surviving rules of equal score and priorities 5 and 10,
\* and the matcher returned the one of priority 10.
C10_Witness ==
    /\ matchPc = "done"
    /\ matchResult # NoPattern
    /\ patterns[matchResult].priority = 10
    /\ \E j \in TopSurvivors : patterns[j].priority = 5

\* C10 (as claimed): ties on score go to the higher priority, and what ties
\* remain go to the rule created first.
C10_TieByCreationOrder ==
    matchPc = "done" /\ Survivors # {} =>
      /\ matchResult \in TopSurvivors
      /\ \A j \in TopSurvivors :
           \/ patterns[j].priority < patterns[matchResult].priority
           \/ /\ patterns[j].priority = patterns[matchResult].priority
              /\ matchResult <= j

-----------------------------------------------------------------------------
(* The subscription workflow's failures: claims C11 .. C16                  *)

\* The steps of the main loop, and the two ways the loop is left in order.
MainLoopPcs ==
    {"condition", "drain", "fetchGmailChanges", "updateGmailAccount",
     "renewalRefresh", "renewGmailWatch", "continueAsNew", "deactivateGmailAccount"}

\* The token refresh and the watch renewal of the main loop.
RenewalPcs == {"renewalRefresh", "renewGmailWatch"}

\* C11 (as claimed): a step of the renewal, and the end of a fetch, leave the
\* workflow in its main loop: a renewal that fails does not end the loop, and
\* neither does a fetch that fails.
C11_FailureDomainsIndependent ==
    [][sub.pc \in RenewalPcs \cup {"fetchGmailChanges"} => sub'.pc \in MainLoopPcs]_vars

\* C11: the renewal failed for good, the workflow returned 'error' while it
\* was still active, and a notification is left in its queue.
C11_RenewalFailureEndsWorkflow ==
    /\ sub.pc = "error"
    /\ sub.error.at \in RenewalPcs
    /\ sub.isActive
    /\ sub.webhookQueue # <<>>
    /\ account.lastError = sub.error.at

C13_InactiveAfterCleanup ==
    sub.pc = "stopped" =>
      /\ ~account.isActive
      /\ account.watchExpiration = NoExpiration

\* C13 witness: stopWatch failed, so the provider still holds the watch, the
\* activity was not run again, and the workflow returned 'stopped' with the
\* account inactive.
C13_Witness ==
    /\ sub.pc = "stopped"
    /\ sub.attempt = 1
    /\ watch.active
    /\ ~account.isActive

\* C14 (as claimed): a run that continueAsNew started (the first run starts
\* on day 0) enters its main loop with the account's cursor as the old run
\* left it, and with that cursor as its own.
C14_RestartKeepsCursor ==
    [][(/\ sub.workflowStartTime > 0
        /\ sub.pc = "setupWatch"
        /\ sub'.pc \in {"condition", "deactivateGmailAccount"})
       => /\ account'.historyId = account.historyId
          /\ sub'.currentHistoryId = account.historyId]_vars

\* C14: in a run that continueAsNew started, every message of the mailbox
\* arrived after the restart and its notification is still queued, yet the
\* account's cursor and the run's own are already past all of them.
C14_RestartMovesCursor ==
    /\ sub.workflowStartTime > 0
    /\ sub.pc = "condition"
    /\ mailboxHistoryId > 0
    /\ Len(sub.webhookQueue) = mailboxHistoryId
    /\ emails = <<>>
    /\ account.historyId = mailboxHistoryId
    /\ sub.currentHistoryId = mailboxHistoryId

\* The activities of the initialisation.
InitPcs == {"saveGmailAccount", "refreshGmailToken", "setupWatch"}

\* C15 (as claimed): when an activity of the initialisation has failed for
\* good, it was tried MAXIMUM_ATTEMPTS times, and the workflow ends by
\* returning 'error' with the error recorded on the account.
C15_InitFailureRecorded ==
    /\ sub.error.at \in InitPcs => sub.attempt = MAXIMUM_ATTEMPTS
    /\ sub.error.at \in InitPcs /\ sub.pc \in {"error", "failed"} =>
          /\ sub.pc = "error"
          /\ account.lastError = sub.error.at
          /\ account.errorCount = 1

\* C15: saveGmailAccount failed on all its attempts for a tenant that has no
\* account document yet, and the workflow returned 'error' with nothing
\* recorded.
C15_InitFailureNotRecorded ==
    /\ sub.pc = "error"
    /\ sub.error.at = "saveGmailAccount"
    /\ sub.attempt = MAXIMUM_ATTEMPTS
    /\ ~account.exists
    /\ account.lastError = NoAccountError
    /\ account.errorCount = 0

\* C16 (as claimed): a token refresh the provider refused for good
\* (invalid_grant) fails at its first attempt, and when the workflow has
\* returned the account is inactive and holds the error.
C16_AuthErrorDeactivates ==
    sub.error.at \in {"refreshGmailToken", "renewalRefresh"}
    /\ sub.error.code = "invalid_grant" =>
      /\ sub.attempt = 1
      /\ sub.pc = "error" => ~account.isActive /\ account.lastError = sub.error.at

\* C16: the refresh failed with invalid_grant at the last of its
\* MAXIMUM_ATTEMPTS attempts, the workflow returned 'error' with the error
\* on the account, and the account is still active.
C16_AuthErrorRetriedAccountActive ==
    /\ sub.pc = "error"
    /\ sub.error.at = "refreshGmailToken"
    /\ sub.error.code = "invalid_grant"
    /\ sub.attempt = MAXIMUM_ATTEMPTS
    /\ account.lastError = "refreshGmailToken"
    /\ account.isActive

\* C21: notifications are numbered in the order the workflow receives them.
\* The queue holds them in that order, every fetchGmailChanges the drain loop
\* starts is for the oldest queued notification, and the notifications
\* still queued are all newer than the one whose fetch has started.
C21_DrainInArrivalOrder ==
    /\ [](\A i \in 1..Len(sub.webhookQueue) : \A j \in 1..Len(sub.webhookQueue) :
            i < j => sub.webhookQueue[i] < sub.webhookQueue[j])
    /\ [][sub.pc = "drain" /\ sub'.pc = "fetchGmailChanges"
            => /\ sub'.webhook = Head(sub.webhookQueue)
               /\ sub'.webhook > sub.webhook
               /\ \A i \in 1..Len(sub'.webhookQueue) :
                    sub'.webhookQueue[i] > sub'.webhook]_vars

\* C21: the fetch for the first notification has started while the second
\* notification waits in the queue.
C21_Witness ==
    /\ sub.pc = "fetchGmailChanges"
    /\ sub.webhook = 1
    /\ sub.webhookQueue = <<2>>

\* C25: whenever the drain loop calls fetchGmailChanges, the access token
\* it passes has not expired.
C25_TokenFreshAtFetch ==
    [][sub.pc = "drain" /\ sub'.pc = "fetchGmailChanges"
          => now <= account.accessTokenExpiresAt]_vars

\* C25: fetchGmailChanges runs on a day after the one on which the
\* workflow's access token expired.
C25_FetchWithExpiredToken ==
    /\ sub.pc = "fetchGmailChanges"
    /\ act.pc = "history"
    /\ account.accessTokenExpiresAt # NoExpiration
    /\ now > account.accessTokenExpiresAt

\* The messages of the delta whose messages.get failed: fetchHistory returns
\* the others in todo.
unfetched(a) ==
    delta(a.start, a.newHistoryId) \ {a.todo[i] : i \in 1..Len(a.todo)}

\* C26: when fetchHistory returns, every message of the delta whose fetch
\* failed has a record of the failure under its id, and the other messages
\* of the delta are returned.
C26_FetchFailureRecorded ==
    [][act.pc = "history" /\ act'.pc \in {"upsert", "saveHistoryId"}
          => /\ \A m \in unfetched(act') :
                  \E i \in emailDocsWith(emails', m) :
                     emails'[i].processingError # NoError
             /\ \A m \in delta(act.start, mailboxHistoryId) :
                  m \in unfetched(act') \/ \E i \in 1..Len(act'.todo) : act'.todo[i] = m]_vars

\* C26: of a delta of two messages one was fetched and is about to be saved,
\* the fetch of the other failed, and the store holds nothing under its id.
C26_FetchFailureOnlyLogged ==
    /\ act.pc = "upsert"
    /\ Len(act.todo) = 1
    /\ Cardinality(unfetched(act)) = 1
    /\ \A m \in unfetched(act) : emailDocsWith(emails, m) = {}

\* C33: no step moves the account's persisted historyId backwards, and no
\* step of a run moves the workflow's in-memory cursor backwards (a run that
\* has no cursor yet, at its start or after continueAsNew, has none to move).
C33_CursorNeverMovesBack ==
    [][/\ account'.historyId >= account.historyId
       /\ sub.currentHistoryId # NoHistoryId /\ sub'.currentHistoryId # NoHistoryId
             => sub'.currentHistoryId >= sub.currentHistoryId]_vars

\* C33 witness: after initialization, a delta fetch and a renewal, each of
\* which found the mailbox further on, the persisted historyId and the
\* in-memory cursor are both at the mailbox's latest history id.
C33_Witness ==
    /\ sub.pc = "condition"
    /\ mailboxHistoryId = MaxMail
    /\ account.historyId = MaxMail
    /\ sub.currentHistoryId = MaxMail
    /\ emails # <<>>

\* No activity has failed for good: the outer catch is entered by nothing
\* but what continueAsNew throws, and the workflow itself has not failed.
NoActivityFailedForGood ==
    /\ sub.pc # "failed"
    /\ sub.pc = "catch" => sub.error.name = "ContinueAsNew"

\* C34: when no activity fails for good, a workflow that has received
\* stopSync comes to return 'stopped', with the account inactive.
C34_StopLeadsToStopped ==
    [](NoActivityFailedForGood)
       => ((Running /\ ~sub.isActive) ~> (sub.pc = "stopped" /\ ~account.isActive))

\* C34: the workflow has received stopSync and is at continueAsNew(input),
\* with no activity failed.
C34_StopForgottenAtContinueAsNew ==
    /\ sub.pc = "continueAsNew"
    /\ ~sub.isActive
    /\ sub.error = NoCaught
    /\ account.isActive

\* C37: a loop iteration that finds the workflow active when the queue is
\* drained goes on to refreshGmailToken and then to renewGmailWatch, however
\* long it waited; when renewGmailWatch returns, the watch is registered anew
\* and the cursor is the history id the registration returned. (An activity
\* that fails for good leaves the loop through the outer catch.)
C37_EveryActiveIterationRenews ==
    [][/\ sub.pc = "drain" /\ sub.webhookQueue = <<>> /\ sub.isActive /\ sub'.pc # "drain"
             => sub'.pc = "renewalRefresh"
       /\ sub.pc = "renewalRefresh" /\ sub'.pc # "renewalRefresh"
             => sub'.pc \in {"renewGmailWatch", "catch"}
       /\ sub.pc = "renewGmailWatch" /\ sub'.pc \notin {"renewGmailWatch", "catch"}
             => /\ sub'.currentHistoryId = mailboxHistoryId
                /\ watch'.active /\ watch'.expiration > now
                /\ account'.accessTokenExpiresAt = expiresAt(now)]_vars

\* C37 witness: on day 1, four days before the renewal sleep ends, a
\* notification woke the workflow; it fetched the delta, refreshed the token
\* and renewed the watch, and waits again with the cursor at the history id
\* of the renewal.
C37_Witness ==
    /\ sub.pc = "condition" /\ sub.isActive
    /\ now = 1 /\ sub.waitStart = 1
    /\ emails # <<>>
    /\ account.accessTokenExpiresAt = expiresAt(1)
    /\ watch.active /\ watch.expiration > now
    /\ sub.currentHistoryId = mailboxHistoryId

-----------------------------------------------------------------------------
(* Persisting and extracting in the pipelines: claims C17, C19              *)

\* The store holds a Transaction of the e-mail pipeline p is working on, under
\* the key p looks it up by: (userId, emailId) in saveTransaction, emailId
\* alone in the use case's findByEmailId.
resultExists(p) ==
    IF p = "uc" THEN \E i \in 1..Len(transactions) : transactions[i].emailId = cur(p)
    ELSE txnDocsWith(transactions, proc[p].userId, cur(p)) # {}

\* C17 (as claimed): an insert attempted while the store already holds the
\* Transaction changes no Transaction and does not end in the pipeline's
\* catch block.
C17_SecondPersistIsNoOp ==
    [][\A p \in Procs :
         proc[p].pc \in {"saveTransactionInsert", "transactionSave"} /\ resultExists(p)
         => /\ transactions' = transactions
            /\ proc'[p].pc \notin CatchPcs]_vars

\* C17: the use case looked for a Transaction of the e-mail and found none,
\* a workflow then saved one, and the use case's own save threw: the use case
\* is in its catch block with an accepted extraction.
C17_RacingSaveThrows ==
    /\ proc["uc"].pc = "ucCatch"
    /\ proc["uc"].conf >= CONFIDENCE_THRESHOLD
    /\ resultExists("uc")

C22_ProcessedStaysProcessed ==
    [][\A i \in 1..Len(emails) :
         emails[i].isProcessed
             => /\ emails'[i].isProcessed
                /\ emails'[i].transactionId = emails[i].transactionId]_vars

\* C22: an Email carries the link to its Transaction, which only the update
\* to isProcessed: true writes, and is unprocessed again with nothing in
\* flight that would mark it: a replayed delta has upserted it, or a later
\* run's catch block has updated it.
C22_ProcessedReset ==
    \E i \in 1..Len(emails) :
       /\ emails[i].transactionId # NoDoc
       /\ ~emails[i].isProcessed
       /\ \A p \in Procs : proc[p].pc = "idle"
       /\ act.pc = "idle"

\* C23: a pipeline whose look-up finds an Email of the message it has come
\* to (saveEmail's findOne in emailProcessingWorkflow, emailRepo.exists in
\* the use case) skips the message: it does not go on to the matcher, and
\* so not to the extraction service, and reports no error for it.
C23_SeenMessageSkipped ==
    [][\A p \in {"wf", "uc"} :
         /\ proc[p].pc = (IF p = "wf" THEN "saveEmail" ELSE "exists")
         /\ findEmail(emails, cur(p)) # NoDoc
         /\ proc'[p] # proc[p]
         => /\ proc'[p].pc \notin {"match", "findPattern", "emailSave"}
            /\ proc'[p].last.outcome \notin {"error", "no pattern", "low confidence"}]_vars

\* C23: only emailProcessingWorkflow has run; the Email of its current
\* message is already marked processed by an earlier run, and the workflow
\* has matched the message again and is calling the extraction service.
C23_SeenMessageExtractedAgain ==
    /\ proc["wf"].pc = "extract"
    /\ \E i \in 1..Len(emails) :
         emails[i].emailId = cur("wf") /\ emails[i].isProcessed
    /\ \A p \in {"sched", "uc"} : proc[p].pc = "idle" /\ proc[p].last = NoReport
    /\ act.pc = "idle"

\* The outcomes the scheduled workflow writes onto an Email for a business
\* failure.
BusinessFailures == {"no pattern", "low confidence"}

\* C24: the scheduled workflow never calls the matcher or the extraction
\* service for a message whose Email records a business failure (no
\* matching pattern, low confidence).
C24_BusinessFailureIsTerminal ==
    proc["sched"].pc \in {"match", "extract"}
        => \A i \in emailDocsWith(emails, cur("sched")) :
              emails[i].processingError \notin BusinessFailures

\* C24: a run of the scheduled workflow calls the matcher for a message
\* whose Email carries 'No matching pattern found' from an earlier run.
C24_FailedMessageMatchedAgain ==
    /\ proc["sched"].pc = "match"
    /\ \E i \in emailDocsWith(emails, cur("sched")) :
         emails[i].processingError = "no pattern" /\ ~emails[i].isProcessed

\* C27: when a workflow leaves an e-mail whose Transaction it holds and
\* whose labelling failed, the Transaction is still in the store and the
\* Email is processed and linked to it, and the e-mail is not reported as
\* failed.
C27_LabelFailureStillProcessed ==
    [][\A p \in Workflows :
         proc[p].pc = "catch" /\ proc[p].txn # NoDoc /\ proc'[p] # proc[p]
         => /\ txnDocsWith(transactions', proc[p].userId, cur(p)) # {}
            /\ \A i \in emailDocsWith(emails', cur(p)) :
                  emails'[i].isProcessed /\ emails'[i].transactionId = proc[p].txn
            /\ proc'[p].last.outcome # "error"]_vars

\* C27: in the only run so far, emailProcessingWorkflow saved the
\* Transaction of an e-mail, and then reported the e-mail as failed and left
\* its Email unprocessed with the error.
C27_LabelFailureRecordedAsError ==
    /\ runs = 1
    /\ proc["wf"].pc # "idle"
    /\ \E t \in 1..Len(transactions) :
          /\ proc["wf"].last = [emailId |-> transactions[t].emailId, outcome |-> "error"]
          /\ \E i \in emailDocsWith(emails, transactions[t].emailId) :
                ~emails[i].isProcessed /\ emails[i].processingError = "error"

\* C31: every statistics update of a rule that completes raises the rule's
\* matchCount by exactly one over the value the store held just before, so
\* that n updates raise it by n under every interleaving.
C31_StatsUpdateCountsOnce ==
    [][\A p \in Workflows :
         proc[p].pc \in {"statsOkSave", "statsFailSave"} /\ proc'[p] # proc[p]
         => matchCount'[proc[p].pattern] = matchCount[proc[p].pattern] + 1]_vars

\* C31: both workflows have completed updateEmailPatternStats for rule 1,
\* and the rule's matchCount is 1.
C31_LostUpdate ==
    /\ \A p \in Workflows : proc[p].pc = "label" /\ proc[p].pattern = 1
    /\ matchCount[1] = 1

\* C32: of the pipeline runs started for one tenant, at most one is
\* executing at any time. (The subscription workflow has one instance per
\* tenant by its workflow id; the runs of the pipelines are the part of the
\* claim that the store can observe.)
C32_OnePipelineRunPerTenant ==
    \A u \in Users \ {NoUser} :
       Cardinality({ p \in Procs : proc[p].pc # "idle" /\ proc[p].userId = u }) <= 1

\* C32: emailProcessingWorkflow and scheduledEmailProcessingWorkflow run for
\* the tenant u1 at the same time, each in the middle of a message: one
\* is at the extraction of message 1 while the other is matching message 2.
C32_TwoRunsOfOneTenant ==
    /\ \A p \in Workflows : proc[p].userId = "u1"
    /\ proc["wf"].pc = "extract" /\ cur("wf") = 1
    /\ proc["sched"].pc = "match" /\ cur("sched") = 2

\* C38: the confidence a Transaction passed the gate with is the confidence
\* the extraction service reported for it: no Transaction comes from a reply
\* that reported 0 or no confidence. (The service reports none of the
\* defaults: 80 is not in ReportedConfidences.)
C38_GateSeesReportedConfidence ==
    \A i \in 1..Len(transactions) :
       transactions[i].confidence \in ReportedConfidences \ {NoConfidence, 0}

\* C38: a workflow has saved a Transaction with the confidence 80, which no
\* reply of the service carries.
C38_DefaultConfidencePersisted ==
    \E p \in Workflows :
       /\ proc[p].txn # NoDoc
       /\ proc[p].conf = orDefault(NoConfidence)
       /\ transactions[proc[p].txn].confidence = orDefault(0)
       /\ transactions[proc[p].txn].emailId = cur(p)


\* C40: an Email with isProcessed: true carries a transactionId, and the
\* Transaction it names is one of the same message; nothing writes
\* isProcessed: true without one.
C40_ProcessedHasResult ==
    \A i \in 1..Len(emails) :
       emails[i].isProcessed
           => /\ emails[i].transactionId \in 1..Len(transactions)
              /\ transactions[emails[i].transactionId].emailId = emails[i].emailId

\* C40: markAsProcessed has written isProcessed: true to an Email that no
\* run has worked on: it names no Transaction and the store holds none.
C40_ProcessedWithoutResult ==
    /\ transactions = <<>>
    /\ \A p \in Procs : proc[p].pc = "idle"
    /\ \E i \in 1..Len(emails) :
         /\ emails[i].isProcessed
         /\ emails[i].transactionId = NoDoc
         /\ emails[i].processingError = NoError

-----------------------------------------------------------------------------
(* The webhook handler: claim C18                                          *)

\* The payload has a character outside the base64 alphabet, or decodes to a
\* text that is not JSON, or to JSON without an emailAddress or a historyId.
malformed(payload) ==
    \/ payload = NoMessage
    \/ \E i \in 1..Len(payload) : payload[i] = "*"
    \/ ~isJson(base64Decode(payload))
    \/ jsonParse(base64Decode(payload)).emailAddress = Undefined
    \/ jsonParse(base64Decode(payload)).historyId = Undefined

\* C18: a malformed push payload (bad base64, bad JSON, or JSON without
\* emailAddress or historyId) is answered with an error, and the handler
\* issues no database query and no workflow signal for it.
C18_MalformedPayloadRejectedBeforeIO ==
    malformed(hook.payload)
        => /\ hook.queries = <<>>
           /\ hook.signals = <<>>
           /\ hook.pc = "responded" => hook.status = 500

\* C18: the payload is JSON with an emailAddress and no historyId; the handler
\* has queried the accounts, signalled the tenant's workflow with an undefined
\* historyId and answered 200.
C18_SignalWithoutHistoryId ==
    /\ hook.pc = "responded"
    /\ hook.payload = <<"{", "e", "}">>
    /\ hook.status = 200
    /\ hook.body = "processed"
    /\ Len(hook.queries) = 1
    /\ hook.signals = << [emailAddress |-> LinkedAddress, historyId |-> Undefined] >>

\* The handler has answered a well-formed notification without an error of
\* the store or of Temporal.
answeredWellFormed ==
    /\ hook.pc = "responded"
    /\ ~malformed(hook.payload)
    /\ hook.status = 200

\* The one signal the handler sends for its notification.
signalOfNotification ==
    << [emailAddress |-> hook.notification.emailAddress,
        historyId |-> hook.notification.historyId] >>

C36_InactiveAccountNeverSignalled ==
    ~account.isActive =>
       /\ hook.pc # "signalWithStart"
       /\ hook.signals = <<>>
       /\ hook.workflowId = NoWorkflowId

\* C36 witness: the handler has looked up the account of a well-formed
\* notification, found none that is active, and answered 'ignored'.
C36_Witness ==
    /\ ~account.isActive
    /\ hook.pc = "responded"
    /\ hook.payload = <<"{", "h", "e", "}">>
    /\ hook.queries = << [email |-> LinkedAddress, isActive |-> TRUE] >>
    /\ hook.body = "ignored"
    /\ hook.signals = <<>>

-----------------------------------------------------------------------------
(* Tenants on one worker: claim C20                                        *)

\* C20: under any interleaving of the gmail-sync activities of two tenants,
\* every provider request made for a tenant carries that tenant's own token,
\* and an activity of one tenant changes no message record and no account
\* of the other.
C20_TenantsShareNothing ==
    /\ [](\A t \in Tenants :
            worker.act[t].pc = "response" => worker.act[t].sent = t)
    /\ [][\A u \in Tenants :
            /\ worker'.accounts[u] # worker.accounts[u] => worker'.act[u] # worker.act[u]
            /\ \A id \in MessageIds :
                 worker.emails[id].fetchedBy = u /\ worker'.emails[id] # worker.emails[id]
                     => worker'.act[u] # worker.act[u]]_vars

\* C20: tenant B's fetchGmailChanges has stored its message 1 and is about
\* to return, and the record of message 1 now carries tenant A's content
\* and A's fetchedBy: A's upsert by emailId has overwritten B's record.
C20_ForeignRecordOverwritten ==
    /\ worker.act["B"].pc = "accountUpdate"
    /\ worker.act["B"].activity = "fetchGmailChanges"
    /\ worker.act["B"].newHistoryId = MailboxOf["B"].historyId
    /\ worker.emails[2] = [fetchedBy |-> "B", mailbox |-> "B"]
    /\ worker.emails[1] = [fetchedBy |-> "A", mailbox |-> "A"]
    /\ worker.act["A"].pc = "upsert"

=============================================================================
